---- MODULE Spec2Model ----
(***************************************************************************)
(* Cross-account / cross-region EC2 instance resolver of                   *)
(* aws-automation-tamer: ec2/find.py (find_instance_by_name and            *)
(* find_instance_with_session) on top of libs/aws_session_manager.py.      *)
(*                                                                         *)
(* Strings whose characters the code inspects (account ids, region names,  *)
(* availability zones) are sequences of one-character strings.  The value  *)
(* None of the code is the empty tuple <<>>.                               *)
(***************************************************************************)
EXTENDS Integers, Sequences, FiniteSets, TLC

VARIABLES
    variant,        \* which resolver function is running
    accounts,       \* get_aws_accounts(config): the registry, in dict order
    valid_regions,  \* get_valid_regions(config): the configured region list
    server_name,    \* the name tag searched for
    backend,        \* what each (account, region) holds in EC2
    fault,          \* how each (account, region) answers remote calls
    pc,             \* "idle", "search", "returned" or "raised"
    ai,             \* position of the account loop (1-based)
    ri,             \* position of the region loop (1-based)
    result,         \* the value returned by the call
    calls,          \* the remote calls issued so far, in order
    visited,        \* the pairs whose region loop body was entered, in order
    log,            \* the warnings and errors the resolver logged, in order
    previous,       \* what the caller kept of its earlier resolver calls
    manager,        \* configuration of a long-lived AssumeRoleSessionManager
    session_cache,  \* its _session_cache, in insertion order
    now,            \* seconds elapsed since the manager was built
    exchanges,      \* credential exchanges the manager issued so far
    last,           \* the manager's last operation and how it ended
    threads,        \* the assume_role calls in progress on the manager, by thread
    returned_keys,  \* history: the (account, region, role) triples for which the
                    \* manager returned a session since it was built or cleared
    construction,   \* the constructor call that builds the manager
    discovery,      \* a search of ec2/info.py: its configuration and progress
    command         \* a start or stop command: its arguments and progress

\* the state of the long-lived session manager
manager_vars == <<manager, session_cache, now, exchanges, last, threads, returned_keys>>

\* the state neither a resolver call nor an operation of the manager touches
apart == <<construction, discovery, command>>

\* the state a resolver call does not touch
outside == <<previous, manager_vars, apart>>

vars == <<variant, accounts, valid_regions, server_name, backend, fault,
          pc, ai, ri, result, calls, visited, log, outside>>

config == <<variant, accounts, valid_regions, server_name, backend, fault>>

(***************************************************************************)
(* Bounds of the model.                                                    *)
(***************************************************************************)
\* at most this many perturbations of a configuration: pairs that answer with
\* a failure, pairs that hold instances and invalid account ids, together
MaxPerturbations == 3

\* credential exchanges one long-lived manager may issue
MaxExchanges == 2

\* how far the clock of the long-lived manager runs, in steps of
\* MinSessionDuration seconds
MaxTicks == 4

\* threads that call assume_role on one manager at the same time
MaxThreads == 2

(***************************************************************************)
(* Characters and strings.                                                 *)
(***************************************************************************)
AsciiDigits == {"0", "1", "2", "3", "4", "5", "6", "7", "8", "9"}

\* str.isalpha() for one character, over the characters the model uses
IsAlpha(c) ==
    c \in {"a", "b", "c", "d", "e", "f", "g", "h", "i", "j", "k", "l", "m",
           "n", "o", "p", "q", "r", "s", "t", "u", "v", "w", "x", "y", "z"}

\* s[:-1]
DropLast(s) == SubSeq(s, 1, Len(s) - 1)

UsEast1 == <<"u", "s", "-", "e", "a", "s", "t", "-", "1">>
EuWest1 == <<"e", "u", "-", "w", "e", "s", "t", "-", "1">>
EuCentral1 == <<"e", "u", "-", "c", "e", "n", "t", "r", "a", "l", "-", "1">>

Repeat(c, n) == [i \in 1..n |-> c]

\* the value None returned by a resolver
None == <<>>

\* the value None of an optional string argument (no string of characters)
NoneStr == <<"None">>

(***************************************************************************)
(* libs/aws_session_manager.py, as the resolvers use it: a manager built   *)
(* with the default configuration (caching disabled).                      *)
(***************************************************************************)
default_role_name ==
    <<"a", "w", "s", "-", "a", "u", "t", "o", "m", "a", "t", "i", "o", "n",
      "-", "t", "a", "m", "e", "r", "-", "a", "d", "m", "i", "n">>

\* a character matched by \d of a str pattern: any Unicode decimal digit
UnicodeDigits == {"U+0663"}
IsDecimalDigit(c) == c \in AsciiDigits \cup UnicodeDigits

AccountIdLength == 12
RoleNameMaxLength == 64

\* ACCOUNT_ID_PATTERN.match(account_id) for ^\d{12}$ : twelve digits, then
\* the end of the string or one newline before the end of the string
ACCOUNT_ID_PATTERN(account_id) ==
    /\ Len(account_id) \in {AccountIdLength, AccountIdLength + 1}
    /\ \A i \in 1..AccountIdLength : IsDecimalDigit(account_id[i])
    /\ Len(account_id) = AccountIdLength + 1
          => account_id[AccountIdLength + 1] = "\n"

\* a value that is not a str: an int
IntValue == <<"int">>

\* isinstance(v, str)
IsStr(v) == v \notin {NoneStr, IntValue}

VALID_REGIONS ==
    { <<"u", "s", "-", "e", "a", "s", "t", "-", "1">>,
      <<"u", "s", "-", "e", "a", "s", "t", "-", "2">>,
      <<"u", "s", "-", "w", "e", "s", "t", "-", "1">>,
      <<"u", "s", "-", "w", "e", "s", "t", "-", "2">>,
      <<"e", "u", "-", "w", "e", "s", "t", "-", "1">>,
      <<"e", "u", "-", "w", "e", "s", "t", "-", "2">>,
      <<"e", "u", "-", "w", "e", "s", "t", "-", "3">>,
      <<"e", "u", "-", "c", "e", "n", "t", "r", "a", "l", "-", "1">>,
      <<"a", "p", "-", "s", "o", "u", "t", "h", "e", "a", "s", "t", "-",
      "1">>,
      <<"a", "p", "-", "s", "o", "u", "t", "h", "e", "a", "s", "t", "-",
      "2">>,
      <<"a", "p", "-", "n", "o", "r", "t", "h", "e", "a", "s", "t", "-",
      "1">>,
      <<"a", "p", "-", "n", "o", "r", "t", "h", "e", "a", "s", "t", "-",
      "2">>,
      <<"c", "a", "-", "c", "e", "n", "t", "r", "a", "l", "-", "1">>,
      <<"s", "a", "-", "e", "a", "s", "t", "-", "1">>,
      <<"a", "p", "-", "s", "o", "u", "t", "h", "-", "1">> }

\* a region AWS has, outside VALID_REGIONS
MeSouth1 == <<"m", "e", "-", "s", "o", "u", "t", "h", "-", "1">>

\* _validate_inputs with the check of the allow-list raising ValueError
ValidateInputsKnownRegion(account_id, region_name, role_name) ==
    /\ account_id # <<>> /\ IsStr(account_id)
    /\ ACCOUNT_ID_PATTERN(account_id)
    /\ region_name # <<>> /\ IsStr(region_name)
    /\ region_name \in VALID_REGIONS
    /\ role_name # NoneStr
          => (role_name # <<>> /\ Len(role_name) <= RoleNameMaxLength)

\* _validate_inputs without the upper limit on the role name
ValidateInputsAnyRoleLength(account_id, region_name, role_name) ==
    /\ account_id # <<>> /\ IsStr(account_id)
    /\ ACCOUNT_ID_PATTERN(account_id)
    /\ region_name # <<>> /\ IsStr(region_name)
    /\ role_name # NoneStr => role_name # <<>>

\* _validate_inputs: TRUE when it returns, FALSE when it raises ValueError
ValidateInputs(account_id, region_name, role_name) ==
    /\ account_id # <<>> /\ IsStr(account_id)
    /\ ACCOUNT_ID_PATTERN(account_id)
    /\ region_name # <<>> /\ IsStr(region_name)
    /\ role_name # NoneStr
          => (role_name # <<>> /\ Len(role_name) <= RoleNameMaxLength)

\* role_name or self.default_role_name
EffectiveRoleName(role_name) ==
    IF role_name = NoneStr \/ role_name = <<>> THEN default_role_name
    ELSE role_name

\* the same on a manager built with a default of its own
EffectiveRoleNameOf(mgr, role_name) ==
    IF role_name = NoneStr \/ role_name = <<>> THEN mgr.default_role_name
    ELSE role_name

\* assume_role repeating a rejected exchange once
AssumeRoleRetrying(account_id, region_name, role_name, sts) ==
    LET effective_role_name == EffectiveRoleName(role_name) IN
    IF ~ValidateInputs(account_id, region_name, effective_role_name)
    THEN [raised |-> "AssumeRoleError", session |-> None, exchanges |-> 0]
    ELSE IF sts # "ok"
    THEN [raised |-> "AssumeRoleError", session |-> None, exchanges |-> 2]
    ELSE [raised |-> "none",
          session |-> [account_id |-> account_id, region |-> region_name,
                       role |-> effective_role_name],
          exchanges |-> 1]

\* assume_role with caching disabled.  sts is the answer of the regional STS
\* endpoint to the exchange ("ok" or "denied").  The result tells what the
\* call raised, the session it returned and how many exchanges it issued.
assume_role(account_id, region_name, role_name, sts) ==
    LET effective_role_name == EffectiveRoleName(role_name) IN
    IF ~ValidateInputs(account_id, region_name, effective_role_name)
    THEN [raised |-> "AssumeRoleError", session |-> None, exchanges |-> 0]
    ELSE IF sts # "ok"
    THEN [raised |-> "AssumeRoleError", session |-> None, exchanges |-> 1]
    ELSE [raised |-> "none",
          session |-> [account_id |-> account_id, region |-> region_name,
                       role |-> effective_role_name],
          exchanges |-> 1]

(***************************************************************************)
(* libs/aws_session_manager.py, one long-lived manager: its configuration, *)
(* its session cache and the clock against which credentials expire.       *)
(***************************************************************************)
MinSessionDuration == 900
DefaultSessionDuration == 3600
MaxSessionDuration == 43200
PrefixMaxLength == 32

session_name_prefix ==
    <<"A", "w", "s", "A", "u", "t", "o", "m", "a", "t", "i", "o", "n",
      "T", "a", "m", "e", "r">>

\* not v, for a str or None
Falsy(v) == v = <<>> \/ v = NoneStr

\* _validate_configuration without the upper limit of session_duration
ValidateConfigurationNoUpperLimit(cfg) ==
    /\ ~Falsy(cfg.default_role_name)
    /\ Len(cfg.default_role_name) <= RoleNameMaxLength
    /\ MinSessionDuration <= cfg.session_duration
    /\ ~Falsy(cfg.session_name_prefix)
    /\ Len(cfg.session_name_prefix) <= PrefixMaxLength

\* _validate_configuration: TRUE when it returns, FALSE when it raises
\* ValueError
ValidateConfiguration(cfg) ==
    /\ ~Falsy(cfg.default_role_name)
    /\ Len(cfg.default_role_name) <= RoleNameMaxLength
    /\ MinSessionDuration <= cfg.session_duration
    /\ cfg.session_duration <= MaxSessionDuration
    /\ ~Falsy(cfg.session_name_prefix)
    /\ Len(cfg.session_name_prefix) <= PrefixMaxLength

\* the global STS endpoint
GlobalStsEndpointUrl(region_name) ==
    <<"h", "t", "t", "p", "s", ":", "/", "/", "s", "t", "s", ".", "a",
      "m", "a", "z", "o", "n", "a", "w", "s", ".", "c", "o", "m">>

\* _get_sts_endpoint_url: f"https://sts.{region_name}.amazonaws.com"
GetStsEndpointUrl(region_name) ==
    <<"h", "t", "t", "p", "s", ":", "/", "/", "s", "t", "s", ".">>
        \o region_name \o <<".", "a", "m", "a", "z", "o", "n", "a", "w", "s", ".", "c",
            "o", "m">>

\* _build_role_arn: f"arn:aws:iam::{account_id}:role/{role_name}"
BuildRoleArn(account_id, role_name) ==
    <<"a", "r", "n", ":", "a", "w", "s", ":", "i", "a", "m", ":", ":">>
        \o account_id \o <<":", "r", "o", "l", "e", "/">> \o role_name

\* the call sts_client.assume_role(**assume_role_params) on the client made
\* for the region; ExternalId = NoneStr stands for a request without one
ExchangeRequest(mgr, account_id, region_name, effective_role_name) ==
    [region_name |-> region_name,
     endpoint_url |-> GetStsEndpointUrl(region_name),
     RoleArn |-> BuildRoleArn(account_id, effective_role_name),
     DurationSeconds |-> mgr.session_duration,
     ExternalId |-> IF Falsy(mgr.external_id) THEN NoneStr ELSE mgr.external_id]

\* _get_cache_key: f"{account_id}:{region_name}:{role_name}"
GetCacheKey(account_id, region_name, role_name) ==
    account_id \o <<":">> \o region_name \o <<":">> \o role_name

\* cache_key in self._session_cache
CachedKeys(cache) == {cache[n].key : n \in 1..Len(cache)}

\* self._session_cache[cache_key]
CacheLookup(cache, key) ==
    cache[CHOOSE n \in 1..Len(cache) : cache[n].key = key].session

\* a manager that never keeps the session
CacheStoreNothing(cache, key, session) == cache

\* self._session_cache[cache_key] = session
CacheStore(cache, key, session) ==
    IF key \in CachedKeys(cache)
    THEN [n \in 1..Len(cache) |->
            IF cache[n].key = key THEN [key |-> key, session |-> session]
            ELSE cache[n]]
    ELSE Append(cache, [key |-> key, session |-> session])

\* a get_cache_info that reports no size
CacheInfoWithoutSize(mgr, cache) ==
    [enabled |-> mgr.enable_caching,
     size |-> 0,
     keys |-> IF mgr.enable_caching THEN [n \in 1..Len(cache) |-> cache[n].key]
              ELSE <<>>]

\* get_cache_info: 'enabled', 'size' = len(self._session_cache), 'keys' =
\* list(self._session_cache.keys()) if self.enable_caching else []
get_cache_info(mgr, cache) ==
    [enabled |-> mgr.enable_caching,
     size |-> Len(cache),
     keys |-> IF mgr.enable_caching THEN [n \in 1..Len(cache) |-> cache[n].key]
              ELSE <<>>]

\* the warning of _validate_inputs for a region outside VALID_REGIONS
WarnsUnknownRegion(account_id, region_name) ==
    /\ account_id # <<>> /\ IsStr(account_id)
    /\ ACCOUNT_ID_PATTERN(account_id)
    /\ region_name # <<>> /\ IsStr(region_name)
    /\ region_name \notin VALID_REGIONS

\* the answers of the regional STS endpoint to an exchange: credentials, or
\* one of the exceptions assume_role handles
StsAnswers == {"ok", "ClientError", "NoCredentialsError", "Exception"}

\* the session built from the credentials of an exchange made at time t;
\* the credentials are valid for DurationSeconds from then on
IssuedSession(session, t, duration) ==
    [account_id |-> session.account_id, region |-> session.region,
     role |-> session.role, expiration |-> t + duration]

\* an assume_role that caches whatever enable_caching says
AssumeRoleCallCaching(mgr, cache, t, account_id, region_name, role_name, sts) ==
    LET effective_role_name == EffectiveRoleNameOf(mgr, role_name)
        valid == ValidateInputs(account_id, region_name, effective_role_name)
        cache_key == GetCacheKey(account_id, region_name, effective_role_name)
        uncached == assume_role(account_id, region_name, effective_role_name, sts)
        request == IF uncached.exchanges = 0 THEN None
                   ELSE ExchangeRequest(mgr, account_id, region_name,
                                        effective_role_name)
        context == [account_id |-> account_id, role_name |-> effective_role_name,
                    region |-> region_name,
                    cause |-> IF valid THEN sts ELSE "ValueError"]
    IN  IF valid /\ cache_key \in CachedKeys(cache)
        THEN [raised |-> "none", error |-> None,
              session |-> CacheLookup(cache, cache_key),
              exchanges |-> 0, request |-> None, cache |-> cache]
        ELSE IF uncached.raised # "none"
        THEN [raised |-> uncached.raised, error |-> context, session |-> None,
              exchanges |-> uncached.exchanges, request |-> request,
              cache |-> cache]
        ELSE LET session == IssuedSession(uncached.session, t, mgr.session_duration)
             IN  [raised |-> "none", error |-> None, session |-> session,
                  exchanges |-> uncached.exchanges, request |-> request,
                  cache |-> CacheStore(cache, cache_key, session)]

\* an assume_role whose failures empty the cache
AssumeRoleCallEvicting(mgr, cache, t, account_id, region_name, role_name, sts) ==
    LET effective_role_name == EffectiveRoleNameOf(mgr, role_name)
        valid == ValidateInputs(account_id, region_name, effective_role_name)
        cache_key == GetCacheKey(account_id, region_name, effective_role_name)
        uncached == assume_role(account_id, region_name, effective_role_name, sts)
        request == IF uncached.exchanges = 0 THEN None
                   ELSE ExchangeRequest(mgr, account_id, region_name,
                                        effective_role_name)
        context == [account_id |-> account_id, role_name |-> effective_role_name,
                    region |-> region_name,
                    cause |-> IF valid THEN sts ELSE "ValueError"]
    IN  IF valid /\ mgr.enable_caching /\ cache_key \in CachedKeys(cache)
        THEN [raised |-> "none", error |-> None,
              session |-> CacheLookup(cache, cache_key),
              exchanges |-> 0, request |-> None, cache |-> cache]
        ELSE IF uncached.raised # "none"
        THEN [raised |-> uncached.raised, error |-> context, session |-> None,
              exchanges |-> uncached.exchanges, request |-> request,
              cache |-> <<>>]
        ELSE LET session == IssuedSession(uncached.session, t, mgr.session_duration)
             IN  [raised |-> "none", error |-> None, session |-> session,
                  exchanges |-> uncached.exchanges, request |-> request,
                  cache |-> IF mgr.enable_caching
                            THEN CacheStore(cache, cache_key, session)
                            ELSE cache]

\* assume_role on manager mgr with cache contents cache at time t: what it
\* raises or returns, the exchanges it issues and the cache it leaves
AssumeRoleCall(mgr, cache, t, account_id, region_name, role_name, sts) ==
    LET effective_role_name == EffectiveRoleNameOf(mgr, role_name)
        valid == ValidateInputs(account_id, region_name, effective_role_name)
        cache_key == GetCacheKey(account_id, region_name, effective_role_name)
        uncached == assume_role(account_id, region_name, effective_role_name, sts)
        request == IF uncached.exchanges = 0 THEN None
                   ELSE ExchangeRequest(mgr, account_id, region_name,
                                        effective_role_name)
        context == [account_id |-> account_id, role_name |-> effective_role_name,
                    region |-> region_name,
                    cause |-> IF valid THEN sts ELSE "ValueError"]
    IN  IF valid /\ mgr.enable_caching /\ cache_key \in CachedKeys(cache)
        THEN [raised |-> "none", error |-> None,
              session |-> CacheLookup(cache, cache_key),
              exchanges |-> 0, request |-> None, cache |-> cache]
        ELSE IF uncached.raised # "none"
        THEN [raised |-> uncached.raised, error |-> context, session |-> None,
              exchanges |-> uncached.exchanges, request |-> request,
              cache |-> cache]
        ELSE LET session == IssuedSession(uncached.session, t, mgr.session_duration)
             IN  [raised |-> "none", error |-> None, session |-> session,
                  exchanges |-> uncached.exchanges, request |-> request,
                  cache |-> IF mgr.enable_caching
                            THEN CacheStore(cache, cache_key, session)
                            ELSE cache]

(***************************************************************************)
(* The remote services.  An EC2 instance is a record of the attributes the *)
(* resolver reads; AZ = <<>> is an instance without Placement or           *)
(* AvailabilityZone data.  The client created from the session assumed for *)
(* (account, region) is taken to query that account in that region.        *)
(***************************************************************************)
InstanceStates ==
    {"pending", "running", "shutting-down", "stopping", "stopped", "terminated"}

Instance(id, name, state, az) ==
    [InstanceId |-> id, Name |-> name, State |-> state, AZ |-> az]

WebName == "web-01"
DbName == "db-01"

\* what one (account, region) can hold: content k of the pair <<i, j>> whose
\* region is named region.  An instance id tells where the instance lives.
ContentIds == 0..6
WavelengthSuffix ==
    <<"-", "w", "l", "1", "-", "b", "o", "s", "-", "w", "l", "z", "-", "1">>
Contents(k, i, j, region) ==
    CASE k = 0 -> <<>>
      [] k = 1 -> <<Instance(<<i, j, 1>>, WebName, "stopped", region \o <<"b">>)>>
      [] k = 2 -> <<Instance(<<i, j, 1>>, DbName, "running", region \o <<"a">>),
                    Instance(<<i, j, 2>>, WebName, "running", <<>>)>>
      [] k = 3 -> <<Instance(<<i, j, 1>>, WebName, "terminated", region \o <<"a">>)>>
      [] k = 4 -> <<Instance(<<i, j, 1>>, WebName, "pending", region \o WavelengthSuffix)>>
      [] k = 5 -> <<Instance(<<i, j, 1>>, WebName, "terminated", region \o <<"c">>),
                    Instance(<<i, j, 2>>, WebName, "stopping", EuCentral1 \o <<"a">>)>>
      [] k = 6 -> <<Instance(<<i, j, 1>>, WebName, "shutting-down", region \o <<"a">>),
                    Instance(<<i, j, 2>>, WebName, "running", region \o <<"b">>)>>

\* how a pair answers: the regional STS endpoint rejects the exchange, the
\* query returns a ClientError with one of three codes, or the query raises
\* an exception that is no ClientError (a transport error)
ClientErrorCodes == {"UnauthorizedOperation", "OptInRequired", "RequestLimitExceeded"}
FaultKinds == {"none", "sts_denied", "transport"} \cup ClientErrorCodes

(***************************************************************************)
(* ec2/find.py                                                             *)
(***************************************************************************)
\* a filter that lets every lifecycle state through
AnyState == InstanceStates

\* the Values of the instance-state-name filter
StateFilterValues ==
    {"pending", "running", "shutting-down", "stopping", "stopped"}

\* describe_instances with the two filters, evaluated by EC2 over what the
\* pair holds: the instances of the response, in EC2's enumeration order
describe_instances(held, name) ==
    SelectSeq(held, LAMBDA inst : inst.Name = name /\ inst.State \in StateFilterValues)

\* a resolver that reports the query region whatever the zone is
QueryRegionOnly(actual_az, region) == region

\* a resolver that reports the zone itself
ZoneAsRegion(actual_az, region) == IF actual_az # <<>> THEN actual_az ELSE region

\* actual_az[:-1] if actual_az[-1].isalpha() else region, under "if actual_az";
\* the query region when the instance has no availability zone
NormalizedRegion(actual_az, region) ==
    IF actual_az # <<>>
    THEN IF IsAlpha(actual_az[Len(actual_az)]) THEN DropLast(actual_az) ELSE region
    ELSE region

\* an inner handler for every exception (except Exception)
InnerCatchesEverything(exc) == TRUE

\* a region loop without the inner handler
InnerCatchesNothing(exc) == FALSE

\* except ClientError (inner try): the exceptions the region loop survives
InnerCatches(exc) == exc = "ClientError"

\* an outer try with the AssumeRoleError handler alone
OuterCatchesAssumeRoleError(exc) == exc = "AssumeRoleError"

\* except AssumeRoleError / except Exception (outer try): the exceptions the
\* account loop survives (AssumeRoleError and ClientError are Exceptions)
OuterCatches(exc) == exc \in {"AssumeRoleError", "ClientError", "Exception"}

NAccounts == Len(accounts)
NRegions == Len(valid_regions)
Pairs == (1..NAccounts) \X (1..NRegions)

\* a region loop that tries the same region again
RetryRegion(i, j) == <<i, j>>

\* "continue" of the region loop: the next region, or the next account
\* after the last region
ContinueRegion(i, j) == IF j < NRegions THEN <<i, j + 1>> ELSE <<i + 1, 1>>

\* an outer handler that leaves the account loop ("break")
BreakAccount(i, j) == <<NAccounts + 1, 1>>

\* "continue" of the account loop, reached from the outer handlers
ContinueAccount(i, j) == <<i + 1, 1>>

\* regional_session.client('ec2'): the client made from an assumed session.
\* It carries the credentials of the session, issued for its account and
\* role.  assume_role builds the Session from the three credentials alone
\* (aws_session_manager.py 276-280) and client() is called with the service
\* name only, so no region is given to the client: region_name = NoneStr.
\* botocore then takes the region from the configuration of the process
\* (AWS_DEFAULT_REGION, the profile) or raises NoRegionError; sts_region is
\* the region of the exchange that issued the credentials.
client(session, service_name) ==
    [service_name |-> service_name,
     account_id |-> session.account_id,
     role |-> session.role,
     sts_region |-> session.region,
     region_name |-> NoneStr]

\* one pass of the region loop body for the pair <<i, j>>: the remote calls
\* it issues and how it ends
RegionBody(i, j) ==
    LET account_name == accounts[i].name
        account_id == accounts[i].id
        region == valid_regions[j]
        assumed == assume_role(account_id, region, NoneStr,
                               IF fault[<<i, j>>] = "sts_denied" THEN "denied" ELSE "ok")
        sts_call == [op |-> "assume_role", account |-> account_name, region |-> region]
        ec2_call == [op |-> "describe_instances", account |-> account_name,
                     region |-> region]
        sts_calls == IF assumed.exchanges = 1 THEN <<sts_call>> ELSE <<>>
        response == describe_instances(
                        Contents(backend[<<i, j>>], i, j, region), server_name)
    IN  IF assumed.raised # "none"
        THEN [exc |-> "AssumeRoleError", code |-> "", issued |-> sts_calls,
              response |-> <<>>, ec2 |-> None]
        ELSE IF fault[<<i, j>>] \in ClientErrorCodes
        THEN [exc |-> "ClientError", code |-> fault[<<i, j>>],
              issued |-> sts_calls \o <<ec2_call>>, response |-> <<>>, ec2 |-> None]
        ELSE IF fault[<<i, j>>] = "transport"
        THEN [exc |-> "Exception", code |-> "",
              issued |-> sts_calls \o <<ec2_call>>, response |-> <<>>, ec2 |-> None]
        ELSE [exc |-> "none", code |-> "", issued |-> sts_calls \o <<ec2_call>>,
              response |-> response, ec2 |-> client(assumed.session, "ec2")]

\* how the loops go on after the region body raised exc for <<i, j>>
Dispatch(exc, i, j) ==
    IF InnerCatches(exc) THEN [pc |-> "search", pos |-> ContinueRegion(i, j)]
    ELSE IF OuterCatches(exc) THEN [pc |-> "search", pos |-> ContinueAccount(i, j)]
    ELSE [pc |-> "raised", pos |-> <<i, j>>]

\* an inner handler that warns whatever the error code
NoQuietErrorCodes == {}

\* error_code not in ['UnauthorizedOperation', 'OptInRequired']: the codes
\* the inner handler passes over without a warning
QuietErrorCodes == {"UnauthorizedOperation", "OptInRequired"}

\* logger.warning(f"Error searching in region {region}: {error_code}")
RegionWarning(i, j, code) ==
    [level |-> "warning", about |-> valid_regions[j], code |-> code]

\* logger.error(f"... in account {account_name}: {e}")
AccountError(i, j, code) ==
    [level |-> "error", about |-> accounts[i].name, code |-> code]

\* what the handler that catches exc for <<i, j>> logs: the inner handler a
\* warning unless the code is a quiet one, the outer handlers an error
HandlerLog(exc, code, i, j) ==
    IF InnerCatches(exc)
    THEN IF code \notin QuietErrorCodes THEN <<RegionWarning(i, j, code)>>
         ELSE <<>>
    ELSE IF OuterCatches(exc) THEN <<AccountError(i, j, code)>>
    ELSE <<>>

\* the first instance of the first reservation of a non-empty response
FirstInstance(response) == Head(response)

\* find_instance_with_session returning the region it queried
ReturnValueQueriedRegion(account_name, region, instance, ec2) ==
    IF variant = "find_instance_by_name"
    THEN <<account_name, NormalizedRegion(instance.AZ, region), instance>>
    ELSE <<account_name, region, instance, ec2>>

\* the return statements of the two resolvers for a match
ReturnValue(account_name, region, instance, ec2) ==
    IF variant = "find_instance_by_name"
    THEN <<account_name, NormalizedRegion(instance.AZ, region), instance>>
    ELSE <<account_name, NormalizedRegion(instance.AZ, region), instance, ec2>>

\* a resolver that remembers the match and goes on searching
AfterMatchKeepSearching(i, j) == [pc |-> "search", pos |-> ContinueRegion(i, j)]

\* a resolver that only leaves the region loop on a match ("break")
AfterMatchNextAccount(i, j) == [pc |-> "search", pos |-> ContinueAccount(i, j)]

\* a match returns at once
AfterMatch(i, j) == [pc |-> "returned", pos |-> <<i, j>>]

(***************************************************************************)
(* Configurations: the registry, the region list, the backend, the faults. *)
(***************************************************************************)
ProdId == Repeat("1", 12)
DevId == Repeat("2", 12)
ShortId == Repeat("1", 11)

Registries ==
    { <<[name |-> "prod", id |-> ProdId], [name |-> "dev", id |-> DevId]>>,
      <<[name |-> "prod", id |-> ShortId], [name |-> "dev", id |-> DevId]>> }

RegionLists == { <<UsEast1, EuWest1>> }

Resolvers == {"find_instance_by_name", "find_instance_with_session"}

InvalidAccounts(reg) == {i \in 1..Len(reg) : ~ACCOUNT_ID_PATTERN(reg[i].id)}

\* the pairs of the configurations above
AllPairs ==
    UNION {(1..Len(reg)) \X (1..Len(regs)) : reg \in Registries, regs \in RegionLists}

Faulted(f) == {p \in DOMAIN f : f[p] # "none"}
Populated(b) == {p \in DOMAIN b : b[p] # 0}

\* the fault maps with at most n failing pairs, the backends with at most n
\* populated pairs
FaultsUpTo ==
    [n \in 0..MaxPerturbations |->
        {f \in [AllPairs -> FaultKinds] : Cardinality(Faulted(f)) <= n}]
BackendsUpTo ==
    [n \in 0..MaxPerturbations |->
        {b \in [AllPairs -> ContentIds] : Cardinality(Populated(b)) <= n}]

\* the configurations with at most n perturbations
Configured(n) ==
    /\ variant \in Resolvers
    /\ accounts \in Registries
    /\ valid_regions \in RegionLists
    /\ server_name = WebName
    /\ Cardinality(InvalidAccounts(accounts)) <= n
    /\ fault \in FaultsUpTo[n - Cardinality(InvalidAccounts(accounts))]
    /\ DOMAIN fault = Pairs
    /\ backend \in BackendsUpTo[n - Cardinality(InvalidAccounts(accounts))
                                   - Cardinality(Faulted(fault))]
    /\ DOMAIN backend = Pairs

\* the manager a resolver call builds: AssumeRoleSessionManager()
DefaultManager ==
    [default_role_name |-> default_role_name,
     session_duration |-> DefaultSessionDuration,
     session_name_prefix |-> session_name_prefix,
     external_id |-> NoneStr,
     enable_caching |-> FALSE]

\* no constructor call is followed
NoConstruction == construction = None

\* no search of ec2/info.py is followed
NoDiscovery == discovery = None

\* no start or stop command is followed
NoCommand == command = None

\* the long-lived manager right after __init__
ManagerBuilt ==
    /\ session_cache = <<>>
    /\ now = 0
    /\ exchanges = 0
    /\ last = [op |-> "__init__"]
    /\ threads = <<>>
    /\ returned_keys = {}

\* no resolver call was made yet
NotCalled ==
    /\ pc = "idle"
    /\ ai = 1
    /\ ri = 1
    /\ result = None
    /\ calls = <<>>
    /\ visited = <<>>
    /\ log = <<>>
    /\ previous = <<>>
    /\ manager = DefaultManager
    /\ ManagerBuilt
    /\ NoConstruction
    /\ NoDiscovery
    /\ NoCommand

Init == Configured(MaxPerturbations) /\ NotCalled

(***************************************************************************)
(* The resolver call, one action per way a pass of the loops can end.      *)
(***************************************************************************)
\* a call that goes on from where the call before it stopped
FindStartResumes ==
    /\ pc = "idle"
    /\ pc' = "search"
    /\ UNCHANGED <<ai, ri, result, calls, visited, log, config, outside>>

\* the call starts: configuration read, manager built, loops entered
FindStart ==
    /\ pc = "idle"
    /\ pc' = "search"
    /\ ai' = 1
    /\ ri' = 1
    /\ result' = None
    /\ calls' = <<>>
    /\ visited' = <<>>
    /\ log' = <<>>
    /\ UNCHANGED <<config, outside>>

InLoop == pc = "search" /\ ai <= NAccounts

\* the loops go on (or the call ends) after an exception of the region body
Raise(body) ==
    LET next == Dispatch(body.exc, ai, ri) IN
    /\ pc' = next.pc
    /\ ai' = next.pos[1]
    /\ ri' = next.pos[2]
    /\ calls' = calls \o body.issued
    /\ visited' = Append(visited, <<ai, ri>>)
    /\ log' = log \o HandlerLog(body.exc, body.code, ai, ri)
    /\ UNCHANGED <<result, config, outside>>

\* assume_role raised AssumeRoleError
IterAssumeRoleError ==
    /\ InLoop
    /\ RegionBody(ai, ri).exc = "AssumeRoleError"
    /\ Raise(RegionBody(ai, ri))

\* describe_instances raised ClientError
IterClientError ==
    /\ InLoop
    /\ RegionBody(ai, ri).exc = "ClientError"
    /\ Raise(RegionBody(ai, ri))

\* describe_instances raised another exception
IterUnexpected ==
    /\ InLoop
    /\ RegionBody(ai, ri).exc = "Exception"
    /\ Raise(RegionBody(ai, ri))

\* the response holds no instance: the region loop goes on
IterNoMatch ==
    /\ InLoop
    /\ RegionBody(ai, ri).exc = "none"
    /\ RegionBody(ai, ri).response = <<>>
    /\ ai' = ContinueRegion(ai, ri)[1]
    /\ ri' = ContinueRegion(ai, ri)[2]
    /\ calls' = calls \o RegionBody(ai, ri).issued
    /\ visited' = Append(visited, <<ai, ri>>)
    /\ UNCHANGED <<pc, result, log, config, outside>>

\* the response holds an instance: the first one is returned
IterMatch ==
    LET body == RegionBody(ai, ri)
        next == AfterMatch(ai, ri) IN
    /\ InLoop
    /\ body.exc = "none"
    /\ body.response # <<>>
    /\ result' = ReturnValue(accounts[ai].name, valid_regions[ri],
                             FirstInstance(body.response), body.ec2)
    /\ pc' = next.pc
    /\ ai' = next.pos[1]
    /\ ri' = next.pos[2]
    /\ calls' = calls \o body.issued
    /\ visited' = Append(visited, <<ai, ri>>)
    /\ UNCHANGED <<log, config, outside>>

\* both loops are exhausted: return None
ReturnNone ==
    /\ pc = "search"
    /\ ai > NAccounts
    /\ pc' = "returned"
    /\ result' = None
    /\ UNCHANGED <<ai, ri, calls, visited, log, config, outside>>

Next ==
    \/ FindStart
    \/ IterAssumeRoleError
    \/ IterClientError
    \/ IterUnexpected
    \/ IterNoMatch
    \/ IterMatch
    \/ ReturnNone

Spec == Init /\ [][Next]_vars

(***************************************************************************)
(* The caller calls a resolver a second time, with the same name, registry *)
(* and regions and against the same backend, after keeping what the first  *)
(* call returned.  The second call may be to the other resolver function.  *)
(***************************************************************************)
CallAgain ==
    /\ pc = "returned"
    /\ previous = <<>>
    /\ previous' = <<[variant |-> variant, result |-> result, calls |-> calls]>>
    /\ variant' \in Resolvers
    /\ pc' = "idle"
    /\ UNCHANGED <<accounts, valid_regions, server_name, backend, fault,
                   ai, ri, result, calls, visited, log, manager_vars, apart>>

InitRepeat == Configured(MaxPerturbations - 1) /\ NotCalled

NextRepeat == Next \/ CallAgain

SpecRepeat == InitRepeat /\ [][NextRepeat]_vars

(***************************************************************************)
(* One long-lived AssumeRoleSessionManager, used directly: assume_role     *)
(* calls, clear_cache, and time passing between them.  No resolver runs.   *)
(***************************************************************************)
resolver_vars == <<config, pc, ai, ri, result, calls, visited, log, previous>>

NoResolver ==
    /\ variant = "find_instance_by_name"
    /\ accounts = <<>>
    /\ valid_regions = <<>>
    /\ server_name = WebName
    /\ backend = <<>>
    /\ fault = <<>>
    /\ pc = "idle"
    /\ ai = 1
    /\ ri = 1
    /\ result = None
    /\ calls = <<>>
    /\ visited = <<>>
    /\ log = <<>>
    /\ previous = <<>>

\* the configurations __init__ accepts, as far as assume_role reads them
Managers ==
    [default_role_name : {default_role_name},
     session_duration : {MinSessionDuration, DefaultSessionDuration},
     session_name_prefix : {session_name_prefix},
     external_id : {NoneStr},
     enable_caching : BOOLEAN]

InitManager ==
    /\ NoResolver
    /\ NoConstruction
    /\ NoDiscovery
    /\ NoCommand
    /\ manager \in Managers
    /\ ManagerBuilt

\* account ids: well-formed, and malformed in each way
LongId == Repeat("1", 13)
LetterId == Repeat("1", 11) \o <<"a">>
NewlineId == ProdId \o <<"\n">>
UnicodeId == Repeat("1", 11) \o <<"U+0663">>
AccountIdArguments ==
    {ProdId, ShortId, LongId, LetterId, NewlineId, UnicodeId, <<>>, NoneStr, IntValue}

RegionArguments == {UsEast1, MeSouth1, <<>>, NoneStr}

OpsRole == <<"o", "p", "s">>
RoleNameArguments ==
    {NoneStr, <<>>, OpsRole, Repeat("r", RoleNameMaxLength),
     Repeat("r", RoleNameMaxLength + 1)}

\* argument triples with at most one argument off the usual, and one with
\* an unlisted region and a role name of its own
ValidationArguments ==
    {<<a, UsEast1, NoneStr>> : a \in AccountIdArguments}
        \cup {<<ProdId, r, NoneStr>> : r \in RegionArguments}
        \cup {<<ProdId, UsEast1, n>> : n \in RoleNameArguments}
        \cup {<<ProdId, MeSouth1, OpsRole>>}

\* well-formed argument triples, for the cache
CacheArguments == {ProdId, DevId} \X {UsEast1} \X {NoneStr, OpsRole}

\* one assume_role call on the manager
AssumeRole(arguments, answers) ==
    \E args \in arguments, sts \in answers :
        LET out == AssumeRoleCall(manager, session_cache, now,
                                  args[1], args[2], args[3], sts) IN
        /\ exchanges + out.exchanges <= MaxExchanges
        /\ exchanges' = exchanges + out.exchanges
        /\ session_cache' = out.cache
        /\ last' = [op |-> "assume_role", account_id |-> args[1],
                    region_name |-> args[2], role_name |-> args[3],
                    raised |-> out.raised, error |-> out.error,
                    session |-> out.session, exchanges |-> out.exchanges,
                    request |-> out.request,
                    warned |-> WarnsUnknownRegion(args[1], args[2]), at |-> now]
        /\ returned_keys' =
              IF out.raised = "none"
              THEN returned_keys \cup
                       {<<args[1], args[2], EffectiveRoleNameOf(manager, args[3])>>}
              ELSE returned_keys
        /\ UNCHANGED <<manager, now, threads, resolver_vars, apart>>

\* a clear_cache that drops the oldest entry only
ClearCacheOldest ==
    /\ session_cache' = IF session_cache = <<>> THEN <<>> ELSE Tail(session_cache)
    /\ last' = [op |-> "clear_cache", dropped |-> CachedKeys(session_cache)]
    /\ returned_keys' = {}
    /\ UNCHANGED <<manager, now, exchanges, threads, resolver_vars, apart>>

\* clear_cache: self._session_cache.clear(), which cannot raise; dropped is
\* the set of keys the cache held
ClearCache ==
    /\ session_cache' = <<>>
    /\ last' = [op |-> "clear_cache", dropped |-> CachedKeys(session_cache)]
    /\ returned_keys' = {}
    /\ UNCHANGED <<manager, now, exchanges, threads, resolver_vars, apart>>

\* get_cache_info
GetCacheInfo ==
    /\ last' = [op |-> "get_cache_info",
                info |-> get_cache_info(manager, session_cache)]
    /\ UNCHANGED <<manager, session_cache, now, exchanges, threads, returned_keys,
                   resolver_vars, apart>>

\* MinSessionDuration seconds pass
Tick ==
    /\ now < MaxTicks * MinSessionDuration
    /\ now' = now + MinSessionDuration
    /\ UNCHANGED <<manager, session_cache, exchanges, last, threads, returned_keys,
                   resolver_vars, apart>>

NextValidation == AssumeRole(ValidationArguments, StsAnswers)

SpecValidation == InitManager /\ [][NextValidation]_vars

NextCache ==
    \/ AssumeRole(CacheArguments, {"ok", "ClientError"})
    \/ ClearCache
    \/ Tick

SpecCache == InitManager /\ [][NextCache]_vars

\* the same manager asked for its cache statistics between the calls
NextCacheInfo ==
    \/ AssumeRole(CacheArguments, {"ok", "ClientError"})
    \/ ClearCache
    \/ GetCacheInfo

SpecCacheInfo == InitManager /\ [][NextCacheInfo]_vars

\* argument triples that pass _validate_inputs and whose parts hold the
\* ':' that _get_cache_key joins them with: f"{a}:{r}:{x:y}" and
\* f"{a}:{r:x}:{y}" are the same string
ExchangedKeyArguments ==
    {ProdId, DevId} \X {UsEast1} \X {NoneStr, <<"x", ":", "y">>}

ColonRegionKeyArguments ==
    {ProdId, DevId} \X {UsEast1 \o <<":", "x">>} \X {<<"y">>}

\* assume_role calls with such arguments on one manager; for a region name
\* that is no host label boto3.client raises (line 251, handled at 311), so
\* such a call returns a session only from the cache, whose lookup (lines
\* 239-244) comes first
NextKeys ==
    \/ AssumeRole(ExchangedKeyArguments, {"ok", "ClientError"})
    \/ AssumeRole(ColonRegionKeyArguments, {"Exception"})

SpecKeys == InitManager /\ [][NextKeys]_vars

(***************************************************************************)
(* The constructor: AssumeRoleSessionManager(...) with arguments of every  *)
(* kind, then assume_role calls on the manager it built, if it built one.  *)
(***************************************************************************)
ExternalId == <<"e", "x", "t", "-", "4", "2">>

\* constructor arguments: valid ones, and each constraint broken both ways
ConstructorArguments ==
    [default_role_name : {NoneStr, <<>>, OpsRole, default_role_name,
                          Repeat("r", RoleNameMaxLength),
                          Repeat("r", RoleNameMaxLength + 1)},
     session_duration : {0, MinSessionDuration - 1, MinSessionDuration,
                         DefaultSessionDuration, MaxSessionDuration,
                         MaxSessionDuration + 1},
     session_name_prefix : {NoneStr, <<>>, session_name_prefix,
                            Repeat("p", PrefixMaxLength),
                            Repeat("p", PrefixMaxLength + 1)},
     external_id : {NoneStr, <<>>, ExternalId},
     enable_caching : BOOLEAN]

InitConstruct ==
    /\ NoResolver
    /\ manager = None
    /\ ManagerBuilt
    /\ construction \in [op : {"called"}, args : ConstructorArguments]
    /\ NoDiscovery
    /\ NoCommand

\* __init__: the attributes are set, then _validate_configuration raises
\* ValueError or the manager is built
Construct ==
    /\ construction.op = "called"
    /\ IF ValidateConfiguration(construction.args)
       THEN /\ manager' = construction.args
            /\ construction' = [op |-> "__init__", args |-> construction.args,
                                raised |-> "none"]
       ELSE /\ manager' = None
            /\ construction' = [op |-> "__init__", args |-> construction.args,
                                raised |-> "ValueError"]
    /\ UNCHANGED <<session_cache, now, exchanges, last, threads, returned_keys,
                   resolver_vars, discovery, command>>

\* arguments of the calls made on the manager built
UseArguments == {ProdId} \X {UsEast1, MeSouth1} \X {NoneStr, OpsRole}

\* assume_role on the manager built
UseManager ==
    /\ manager # None
    /\ AssumeRole(UseArguments, {"ok", "ClientError"})

NextConstruct == Construct \/ UseManager

SpecConstruct == InitConstruct /\ [][NextConstruct]_vars

(***************************************************************************)
(* Several threads call assume_role on one manager.  A call is three       *)
(* steps, between which another thread may run: validation and the cache   *)
(* lookup (lines 228-244), the exchange (246-280), the cache insert and    *)
(* the return (282-289).  The code holds no lock.                          *)
(***************************************************************************)
InitThreads ==
    /\ NoResolver
    /\ NoConstruction
    /\ NoDiscovery
    /\ NoCommand
    /\ manager \in Managers
    /\ session_cache = <<>>
    /\ now = 0
    /\ exchanges = 0
    /\ last = [op |-> "__init__"]
    /\ threads = [t \in 1..MaxThreads |-> [pc |-> "idle"]]
    /\ returned_keys = {}

\* thread t enters assume_role: validation, then the cache lookup
ThreadLookup(t) ==
    \E args \in CacheArguments :
        LET effective_role_name == EffectiveRoleName(args[3])
            cache_key == GetCacheKey(args[1], args[2], effective_role_name)
            call == [account_id |-> args[1], region_name |-> args[2],
                     role_name |-> args[3], cache_key |-> cache_key]
        IN
        /\ threads[t].pc = "idle"
        /\ ValidateInputs(args[1], args[2], effective_role_name)
        /\ threads' = [threads EXCEPT ![t] =
              IF manager.enable_caching /\ cache_key \in CachedKeys(session_cache)
              THEN call @@ [pc |-> "returned", raised |-> "none", exchanges |-> 0,
                            session |-> CacheLookup(session_cache, cache_key)]
              ELSE call @@ [pc |-> "missed", raised |-> "none", exchanges |-> 0,
                            session |-> None]]
        /\ UNCHANGED <<manager, session_cache, now, exchanges, last, returned_keys,
                       resolver_vars, apart>>

\* thread t issues its exchange and builds the session, or raises
ThreadExchange(t) ==
    \E sts \in {"ok", "ClientError"} :
        LET call == threads[t]
            uncached == assume_role(call.account_id, call.region_name,
                                    call.role_name, sts)
        IN
        /\ call.pc = "missed"
        /\ exchanges + uncached.exchanges <= MaxExchanges
        /\ exchanges' = exchanges + uncached.exchanges
        /\ threads' = [threads EXCEPT ![t] =
              IF uncached.raised # "none"
              THEN [call EXCEPT !.pc = "raised", !.raised = uncached.raised,
                                !.exchanges = uncached.exchanges]
              ELSE [call EXCEPT !.pc = "exchanged",
                                !.exchanges = uncached.exchanges,
                                !.session = IssuedSession(uncached.session, now,
                                                          manager.session_duration)]]
        /\ UNCHANGED <<manager, session_cache, now, last, returned_keys,
                       resolver_vars, apart>>

\* thread t caches its session if caching is enabled, and returns it
ThreadInsert(t) ==
    /\ threads[t].pc = "exchanged"
    /\ session_cache' = IF manager.enable_caching
                        THEN CacheStore(session_cache, threads[t].cache_key,
                                        threads[t].session)
                        ELSE session_cache
    /\ threads' = [threads EXCEPT ![t].pc = "returned"]
    /\ returned_keys' =
          returned_keys \cup {<<threads[t].account_id, threads[t].region_name,
                                EffectiveRoleName(threads[t].role_name)>>}
    /\ UNCHANGED <<manager, now, exchanges, last, resolver_vars, apart>>

NextThreads ==
    \E t \in 1..MaxThreads :
        \/ ThreadLookup(t)
        \/ ThreadExchange(t)
        \/ ThreadInsert(t)

SpecThreads == InitThreads /\ [][NextThreads]_vars

(***************************************************************************)
(* ec2/info.py: find_instance_by_name in discovery mode.  For each account *)
(* one session is assumed in the default region, describe_regions is       *)
(* called through it, and the regions it returns are searched in order.    *)
(***************************************************************************)
\* get_default_region(config)
default_region == UsEast1

\* what describe_regions may return for an account: its enabled regions
EnabledRegionLists ==
    {<<>>, <<UsEast1>>, <<EuCentral1, UsEast1>>, <<UsEast1, MeSouth1>>}

\* the positions of the longest list
RegionPositions ==
    1..(CHOOSE n \in 0..3 : /\ \E l \in EnabledRegionLists : Len(l) = n
                            /\ \A l \in EnabledRegionLists : Len(l) <= n)

\* how the seed session and the describe_regions call of an account answer
SeedFaultKinds == {"none", "sts_denied", "ClientError", "transport"}

\* the response of describe_regions: one entry per enabled region
describe_regions(enabled) == [n \in 1..Len(enabled) |-> [RegionName |-> enabled[n]]]

\* a search that keeps the first region of the response only
FirstRegionName(response) ==
    IF response = <<>> THEN <<>> ELSE <<response[1].RegionName>>

\* [region['RegionName'] for region in ...describe_regions()['Regions']]
RegionNames(response) == [n \in 1..Len(response) |-> response[n].RegionName]

\* lines 46-48: the seed session and the region query of account i
SeedBody(d, i) ==
    LET account_name == d.accounts[i].name
        session == assume_role(d.accounts[i].id, default_region, NoneStr,
                               IF d.seed_fault[i] = "sts_denied" THEN "denied"
                               ELSE "ok")
        sts_call == [op |-> "assume_role", account |-> account_name,
                     region |-> default_region]
        ec2_call == [op |-> "describe_regions", account |-> account_name,
                     region |-> default_region]
        sts_calls == IF session.exchanges = 1 THEN <<sts_call>> ELSE <<>>
    IN  IF session.raised # "none"
        THEN [exc |-> "AssumeRoleError", issued |-> sts_calls, regions |-> <<>>]
        ELSE IF d.seed_fault[i] = "ClientError"
        THEN [exc |-> "ClientError", issued |-> sts_calls \o <<ec2_call>>,
              regions |-> <<>>]
        ELSE IF d.seed_fault[i] = "transport"
        THEN [exc |-> "Exception", issued |-> sts_calls \o <<ec2_call>>,
              regions |-> <<>>]
        ELSE [exc |-> "none", issued |-> sts_calls \o <<ec2_call>>,
              regions |-> RegionNames(describe_regions(d.enabled[i]))]

\* lines 55-81: the body of the region loop for the j-th region of account i
InfoRegionBody(d, i, j) ==
    LET account_name == d.accounts[i].name
        region == d.regions[j]
        regional_session ==
            assume_role(d.accounts[i].id, region, NoneStr,
                        IF d.fault[<<i, j>>] = "sts_denied" THEN "denied" ELSE "ok")
        sts_call == [op |-> "assume_role", account |-> account_name, region |-> region]
        ec2_call == [op |-> "describe_instances", account |-> account_name,
                     region |-> region]
        sts_calls == IF regional_session.exchanges = 1 THEN <<sts_call>> ELSE <<>>
        response == describe_instances(Contents(d.holds[<<i, j>>], i, j, region),
                                       d.server_name)
    IN  IF regional_session.raised # "none"
        THEN [exc |-> "AssumeRoleError", code |-> "", issued |-> sts_calls,
              response |-> <<>>]
        ELSE IF d.fault[<<i, j>>] \in ClientErrorCodes
        THEN [exc |-> "ClientError", code |-> d.fault[<<i, j>>],
              issued |-> sts_calls \o <<ec2_call>>, response |-> <<>>]
        ELSE IF d.fault[<<i, j>>] = "transport"
        THEN [exc |-> "Exception", code |-> "",
              issued |-> sts_calls \o <<ec2_call>>, response |-> <<>>]
        ELSE [exc |-> "none", code |-> "", issued |-> sts_calls \o <<ec2_call>>,
              response |-> response]

DiscoveryAccounts == (1..2) \X RegionPositions

\* the searches: a registry, the enabled regions of each account, at most one
\* account whose seed fails, at most one region that fails, at most one
\* region that holds the instance
Discoveries ==
    {d \in [accounts : Registries,
            server_name : {WebName},
            enabled : [1..2 -> EnabledRegionLists],
            seed_fault : [1..2 -> SeedFaultKinds],
            fault : [DiscoveryAccounts -> FaultKinds],
            holds : [DiscoveryAccounts -> {0, 1}],
            pc : {"idle"}, ai : {1}, ri : {1}, regions : {<<>>},
            entered : {<<>>}, visited : {<<>>}, calls : {<<>>}, log : {<<>>},
            result : {None}] :
        /\ Cardinality({i \in 1..2 : d.seed_fault[i] # "none"}) <= 1
        /\ Cardinality(Faulted(d.fault)) <= 1
        /\ Cardinality(Populated(d.holds)) <= 1}

InitDiscovery ==
    /\ NoResolver
    /\ manager = DefaultManager
    /\ ManagerBuilt
    /\ NoConstruction
    /\ NoCommand
    /\ discovery \in Discoveries

\* what a step of the search leaves alone
discovery_frame == <<resolver_vars, manager_vars, construction, command>>

\* the call starts: the account loop is entered
InfoFindStart ==
    /\ discovery.pc = "idle"
    /\ discovery' = [discovery EXCEPT !.pc = "account"]
    /\ UNCHANGED discovery_frame

\* lines 44-49 and 95-100: the seed session is assumed and the regions are
\* queried; a failure is logged and the account loop goes on
InfoDescribeRegions ==
    LET d == discovery
        seed == SeedBody(d, d.ai) IN
    /\ d.pc = "account"
    /\ d.ai <= Len(d.accounts)
    /\ discovery' =
          IF seed.exc # "none"
          THEN [d EXCEPT !.ai = d.ai + 1,
                         !.regions = <<>>,
                         !.entered = Append(d.entered, d.ai),
                         !.calls = d.calls \o seed.issued,
                         !.log = Append(d.log, [level |-> "error",
                                                about |-> d.accounts[d.ai].name,
                                                code |-> ""])]
          ELSE [d EXCEPT !.pc = "region",
                         !.ri = 1,
                         !.regions = seed.regions,
                         !.entered = Append(d.entered, d.ai),
                         !.calls = d.calls \o seed.issued]
    /\ UNCHANGED discovery_frame

\* lines 52-93: one pass of the region loop
InfoSearchRegion ==
    LET d == discovery
        body == InfoRegionBody(d, d.ai, d.ri)
        passed == [d EXCEPT !.visited = Append(d.visited, <<d.ai, d.regions[d.ri]>>),
                            !.calls = d.calls \o body.issued]
        instance == FirstInstance(body.response)
    IN
    /\ d.pc = "region"
    /\ d.ri <= Len(d.regions)
    /\ discovery' =
          IF body.exc = "ClientError"
          THEN [passed EXCEPT
                   !.ri = d.ri + 1,
                   !.log = IF body.code \notin QuietErrorCodes
                           THEN Append(d.log, [level |-> "warning",
                                               about |-> d.regions[d.ri],
                                               code |-> body.code])
                           ELSE d.log]
          ELSE IF body.exc # "none"
          THEN [passed EXCEPT
                   !.pc = "account",
                   !.ai = d.ai + 1,
                   !.log = Append(d.log, [level |-> "error",
                                          about |-> d.accounts[d.ai].name,
                                          code |-> ""])]
          ELSE IF body.response = <<>>
          THEN [passed EXCEPT !.ri = d.ri + 1]
          ELSE [passed EXCEPT
                   !.pc = "returned",
                   !.result = <<d.accounts[d.ai].name,
                                NormalizedRegion(instance.AZ, d.regions[d.ri]),
                                instance>>]
    /\ UNCHANGED discovery_frame

\* the region loop of the account is exhausted
InfoAccountDone ==
    /\ discovery.pc = "region"
    /\ discovery.ri > Len(discovery.regions)
    /\ discovery' = [discovery EXCEPT !.pc = "account", !.ai = discovery.ai + 1]
    /\ UNCHANGED discovery_frame

\* the account loop is exhausted: return None
InfoReturnNone ==
    /\ discovery.pc = "account"
    /\ discovery.ai > Len(discovery.accounts)
    /\ discovery' = [discovery EXCEPT !.pc = "returned", !.result = None]
    /\ UNCHANGED discovery_frame

NextDiscovery ==
    \/ InfoFindStart
    \/ InfoDescribeRegions
    \/ InfoSearchRegion
    \/ InfoAccountDone
    \/ InfoReturnNone

SpecDiscovery == InitDiscovery /\ [][NextDiscovery]_vars

\* one call of any of the three resolvers: find_instance_by_name and
\* find_instance_with_session of ec2/find.py over the configured regions
\* (accounts is the registry), or find_instance_by_name of ec2/info.py in
\* discovery mode (the registry is in discovery)
InitResolvers ==
    \/ Configured(MaxPerturbations - 1) /\ NotCalled
    \/ InitDiscovery

NextResolvers ==
    \/ accounts # <<>> /\ Next
    \/ accounts = <<>> /\ NextDiscovery

SpecResolvers == InitResolvers /\ [][NextResolvers]_vars

(***************************************************************************)
(* ec2/start.py and ec2/stop.py: start_instance_by_name and                *)
(* stop_instance_by_name.  What find_instance_with_session returns or      *)
(* raises, the answers of the user to get_confirmation and the outcomes of *)
(* the EC2 calls and waiters are inputs.  events is what the call did, in  *)
(* order: the prompts it showed, the waiters it ran, the calls that change *)
(* the instance.                                                           *)
(***************************************************************************)
\* an instance_data without the State key
NoState == ""

\* instance_data.get('State', {}).get('Name', 'unknown')
InstanceStateName(instance_data) ==
    IF instance_data.State = NoState THEN "unknown" ELSE instance_data.State

\* a start that takes an instance shutting down for a stopped one
StartBranchAnyOther(instance_state, wait) ==
    IF instance_state = "running" THEN "True"
    ELSE IF instance_state = "pending" THEN IF wait THEN "wait" ELSE "True"
    ELSE IF instance_state \notin {"stopped", "stopping", "shutting-down"} THEN "False"
    ELSE IF instance_state = "stopping" THEN "stopping"
    ELSE "proceed"

\* start.py lines 74-91: where the start goes for the resolved state
StartBranch(instance_state, wait) ==
    IF instance_state = "running" THEN "True"
    ELSE IF instance_state = "pending" THEN IF wait THEN "wait" ELSE "True"
    ELSE IF instance_state \notin {"stopped", "stopping"} THEN "False"
    ELSE IF instance_state = "stopping" THEN "stopping"
    ELSE "proceed"

\* a stop that takes an instance shutting down for a running one
StopBranchAnyOther(instance_state, wait) ==
    IF instance_state = "stopped" THEN "True"
    ELSE IF instance_state = "stopping" THEN IF wait THEN "wait" ELSE "True"
    ELSE IF instance_state \notin {"running", "pending", "shutting-down"} THEN "False"
    ELSE "proceed"

\* stop.py lines 74-88: where the stop goes for the resolved state
StopBranch(instance_state, wait) ==
    IF instance_state = "stopped" THEN "True"
    ELSE IF instance_state = "stopping" THEN IF wait THEN "wait" ELSE "True"
    ELSE IF instance_state \notin {"running", "pending"} THEN "False"
    ELSE "proceed"

\* a command that asks nobody
ConfirmedUnasked(auto_confirm, answer) == TRUE

\* if not auto_confirm: if not get_confirmation(...): return False
Confirmed(auto_confirm, answer) == auto_confirm \/ answer

\* the prompt shown unless auto_confirm, with the answer given
Prompt(auto_confirm, question, answer) ==
    IF auto_confirm THEN <<>>
    ELSE <<[kind |-> "prompt", what |-> question, ok |-> answer]>>

\* a dry run that is not looked at
DryRunIgnored(dry_run) == FALSE

\* if dry_run: ... return True
DryRun(dry_run) == dry_run

\* the call that changes the instance, and the waiter of its target state
MutatingCall(op) == IF op = "start" THEN "start_instances" ELSE "stop_instances"
FinalWaiter(op) == IF op = "start" THEN "instance_running" ELSE "instance_stopped"

\* a command without the outer handler
CommandCatchesNothing(exc) == FALSE

\* except Exception (outer try of both commands): what the call survives
CommandCatches(exc) == exc = "Exception"

\* a waiter whose failure goes unnoticed
WaiterIgnored(waited) == "True"

\* _wait_for_instance_running, _wait_for_instance_stopped: True when the
\* waiter returns, False when it raises
WaiterResult(waited) == IF waited THEN "True" ELSE "False"

\* a start that goes on whether the instance stopped or not
StoppedAnyway(waited) == TRUE

\* try: stop_waiter.wait(...) except Exception: return False
Stopped(waited) == waited

\* return value
Return(c, value) == [c EXCEPT !.pc = "returned", !.result = value]

\* what find_instance_with_session gives the command
ResolverOutcomes ==
    [found : {"raised", "none"}, instance_data : {None}]
        \cup [found : {"instance"},
              instance_data : [InstanceId : {None, <<1, 1, 1>>},
                               State : InstanceStates \cup {NoState}]]

Commands ==
    [op : {"start", "stop"}, wait : BOOLEAN, dry_run : BOOLEAN,
     auto_confirm : BOOLEAN, resolved : ResolverOutcomes,
     pc : {"called"}, events : {<<>>}, result : {""}]

InitCommand ==
    /\ NoResolver
    /\ manager = DefaultManager
    /\ ManagerBuilt
    /\ NoConstruction
    /\ NoDiscovery
    /\ command \in Commands

\* what a step of a command leaves alone
command_frame == <<resolver_vars, manager_vars, construction, discovery>>

\* lines 40-88 and the outer handler: the instance is resolved and the call
\* branches on its state
CommandResolve ==
    LET c == command
        instance_data == c.resolved.instance_data
        instance_state == InstanceStateName(instance_data)
        branch == IF c.op = "start" THEN StartBranch(instance_state, c.wait)
                  ELSE StopBranch(instance_state, c.wait)
    IN
    /\ c.pc = "called"
    /\ command' =
          IF c.resolved.found = "raised"
          THEN IF CommandCatches("Exception") THEN Return(c, "False")
               ELSE [c EXCEPT !.pc = "raised"]
          ELSE IF c.resolved.found = "none" THEN Return(c, "False")
          ELSE IF instance_data.InstanceId = None THEN Return(c, "False")
          ELSE IF branch \in {"True", "False"} THEN Return(c, branch)
          ELSE [c EXCEPT !.pc = branch]
    /\ UNCHANGED command_frame

\* start.py lines 91-115: the instance is stopping; the user is asked unless
\* auto_confirm, then the instance_stopped waiter runs
CommandWaitThenStart ==
    \E answer \in BOOLEAN, waited \in BOOLEAN :
        LET c == command
            asked == [c EXCEPT !.events = c.events \o
                         Prompt(c.auto_confirm, "wait_for_stop", answer)]
            waiting == [asked EXCEPT !.events = asked.events \o
                           <<[kind |-> "wait", what |-> "instance_stopped",
                              ok |-> waited]>>]
        IN
        /\ c.pc = "stopping"
        /\ command' =
              IF ~Confirmed(c.auto_confirm, answer) THEN Return(asked, "False")
              ELSE IF ~Stopped(waited) THEN Return(waiting, "False")
              ELSE [waiting EXCEPT !.pc = "proceed"]
        /\ UNCHANGED command_frame

\* start.py lines 118-134, stop.py lines 91-107: the dry run returns, or the
\* user is asked unless auto_confirm
CommandProceed ==
    \E answer \in BOOLEAN :
        LET c == command
            asked == [c EXCEPT !.events = c.events \o
                         Prompt(c.auto_confirm, "are_you_sure", answer)]
        IN
        /\ c.pc = "proceed"
        /\ command' =
              IF DryRun(c.dry_run) THEN Return(c, "True")
              ELSE IF ~Confirmed(c.auto_confirm, answer) THEN Return(asked, "False")
              ELSE [asked EXCEPT !.pc = "mutate"]
        /\ UNCHANGED command_frame

\* start.py lines 140-163, stop.py lines 113-136: start_instances or
\* stop_instances is called; it answers or raises
CommandMutate ==
    \E answered \in BOOLEAN :
        LET c == command
            called == [c EXCEPT !.events = c.events \o
                          <<[kind |-> "call", what |-> MutatingCall(c.op),
                             ok |-> answered]>>]
        IN
        /\ c.pc = "mutate"
        /\ command' =
              IF ~answered THEN Return(called, "False")
              ELSE IF c.wait THEN [called EXCEPT !.pc = "wait"]
              ELSE Return(called, "True")
        /\ UNCHANGED command_frame

\* the waiter of the target state runs and its outcome is returned
CommandWait ==
    \E waited \in BOOLEAN :
        LET c == command
            waiting == [c EXCEPT !.events = c.events \o
                           <<[kind |-> "wait", what |-> FinalWaiter(c.op),
                              ok |-> waited]>>]
        IN
        /\ c.pc = "wait"
        /\ command' = Return(waiting, WaiterResult(waited))
        /\ UNCHANGED command_frame

NextCommand ==
    \/ CommandResolve
    \/ CommandWaitThenStart
    \/ CommandProceed
    \/ CommandMutate
    \/ CommandWait

SpecCommand == InitCommand /\ [][NextCommand]_vars

(***************************************************************************)
(* Vocabulary of the properties, stated over the configuration and the     *)
(* history of the call, not over the resolver's own operators.             *)
(***************************************************************************)
ActionableStates == {"pending", "running", "shutting-down", "stopping", "stopped"}

\* iteration order of the double loop
Before(p, q) == p[1] < q[1] \/ (p[1] = q[1] /\ p[2] < q[2])

HeldBy(p) == Contents(backend[p], p[1], p[2], valid_regions[p[2]])

\* the instances of a pair that carry the target name and are not terminated
MatchesOf(p) ==
    SelectSeq(HeldBy(p),
              LAMBDA inst : inst.Name = server_name /\ inst.State \in ActionableStates)

\* the pairs that hold a matching instance
Holders == {p \in Pairs : MatchesOf(p) # <<>>}

\* role assumption is rejected for the pair
AssumeFails(p) == fault[p] = "sts_denied" \/ p[1] \in InvalidAccounts(accounts)

\* the pair fails with a ClientError of the expected-inaccessible class
AccessDenied(p) ==
    ~AssumeFails(p) /\ fault[p] \in {"UnauthorizedOperation", "OptInRequired"}

\* the pair answers its query without any failure
Healthy(p) == ~AssumeFails(p) /\ fault[p] = "none"

Queries(p) ==
    {n \in 1..Len(calls) :
        calls[n] = [op |-> "describe_instances", account |-> accounts[p[1]].name,
                    region |-> valid_regions[p[2]]]}
Queried(p) == Queries(p) # {}
Visited(p) == \E n \in 1..Len(visited) : visited[n] = p

Returned == pc = "returned"
Found == Returned /\ result # None

\* the call returned the first matching instance of pair p
ReturnedMatchOf(p) ==
    /\ Found
    /\ result[1] = accounts[p[1]].name
    /\ result[3] = MatchesOf(p)[1]

\* the pair whose instance the call returned
ResultPair == <<result[3].InstanceId[1], result[3].InstanceId[2]>>

C2_RegionFailureKeepsAccountLoop ==
    (Returned /\ result = None) =>
        \A p \in Pairs : ~AssumeFails(p) => Queried(p)

(***************************************************************************)
(* C3.  When role assumption fails for an account, the search goes on with *)
(* the accounts after it: if nothing is found, every later account was     *)
(* entered and, when it has no failure of its own, queried in each of its  *)
(* regions; and a match held by a later account that answers is returned.  *)
(***************************************************************************)
AccountFails(a) == \E j \in 1..NRegions : AssumeFails(<<a, j>>)

\* no role assumption and no query of the account fails with anything but a
\* ClientError
AccountAnswers(b) ==
    \A j \in 1..NRegions :
        ~AssumeFails(<<b, j>>) /\ fault[<<b, j>>] # "transport"

C5_EarlyTermination ==
    result # None =>
        /\ pc = "returned"
        /\ Len(calls) > 0
        /\ calls[Len(calls)] =
              [op |-> "describe_instances", account |-> result[1],
               region |-> valid_regions[ResultPair[2]]]
        /\ visited[Len(visited)] = ResultPair
        /\ \A q \in Holders : (q # ResultPair /\ Healthy(q)) => ~Queried(q)

\* a match in the first pair is returned although later pairs hold matches
C5_Witness ==
    /\ Found
    /\ ResultPair = <<1, 1>>
    /\ Len(calls) = 2
    /\ \E q \in Holders : Before(<<1, 1>>, q) /\ Healthy(q)

(***************************************************************************)
(* C6.  Within one call at most one describe_instances query is issued per *)
(* (account, region) pair, whatever fails; the loops only move forward in  *)
(* iteration order and enter no pair twice, so the call ends after at most *)
(* |accounts| x |regions| queries.                                         *)
(***************************************************************************)
DescribeCalls == {n \in 1..Len(calls) : calls[n].op = "describe_instances"}

C6_AtMostOneQueryPerPair ==
    /\ \A p \in Pairs : Cardinality(Queries(p)) <= 1
    /\ \A n \in DescribeCalls : \E p \in Pairs : n \in Queries(p)
    /\ Cardinality(DescribeCalls) <= NAccounts * NRegions
    /\ \A m, n \in 1..Len(visited) : m < n => Before(visited[m], visited[n])
    /\ (pc = "search" /\ ai <= NAccounts) =>
          /\ <<ai, ri>> \in Pairs
          /\ \A n \in 1..Len(visited) : Before(visited[n], <<ai, ri>>)
    /\ pc = "search" => ai <= NAccounts + 1

\* with failures on the way, all |accounts| x |regions| queries are issued
C6_Witness ==
    /\ Returned
    /\ Cardinality(DescribeCalls) = NAccounts * NRegions
    /\ \E p, q \in Pairs : fault[p] \in ClientErrorCodes /\ fault[q] = "transport"

(***************************************************************************)
(* C7.  Region normalization.  As claimed: the region of every result is   *)
(* the availability zone of the returned instance with its trailing        *)
(* alphabetic character removed, and the query region when the instance    *)
(* has no availability zone.                                               *)
(***************************************************************************)
QueryRegion == valid_regions[ResultPair[2]]

\* the string without its trailing alphabetic character, if it has one
WithoutTrailingLetter(s) == IF IsAlpha(s[Len(s)]) THEN DropLast(s) ELSE s

C7_RegionIsZoneWithoutSuffix ==
    Found =>
        result[2] = IF result[3].AZ = <<>> THEN QueryRegion
                    ELSE WithoutTrailingLetter(result[3].AZ)

(***************************************************************************)
(* C7, amended.  When the availability zone ends in an alphabetic          *)
(* character, the region of the result is the zone without that character; *)
(* when the instance has no availability zone, or its zone does not end in *)
(* an alphabetic character, it is the query region unchanged.              *)
(***************************************************************************)
C7_RegionNormalization ==
    Found =>
        LET az == result[3].AZ IN
        IF az # <<>> /\ IsAlpha(az[Len(az)])
        THEN result[2] \o <<az[Len(az)]>> = az
        ELSE result[2] = QueryRegion

\* a zone that ends in a digit (a Wavelength zone) gives the query region,
\* which is neither the zone nor the zone without its last character
C7_Witness ==
    /\ Found
    /\ result[3].AZ # <<>>
    /\ ~IsAlpha(result[3].AZ[Len(result[3].AZ)])
    /\ result[2] = QueryRegion
    /\ result[2] # result[3].AZ
    /\ result[2] # DropLast(result[3].AZ)

(***************************************************************************)
(* C8.  The instance returned is never in a lifecycle state outside        *)
(* {pending, running, shutting-down, stopping, stopped}; when every        *)
(* instance carrying the target name is terminated, the result is None.    *)
(***************************************************************************)
NamedInstances ==
    {inst \in UNION {{HeldBy(p)[k] : k \in 1..Len(HeldBy(p))} : p \in Pairs} :
        inst.Name = server_name}

C8_TerminatedNeverReturned ==
    /\ Found =>
          /\ result[3].State \in
                {"pending", "running", "shutting-down", "stopping", "stopped"}
          /\ result[3].Name = server_name
    /\ (Returned /\ \A inst \in NamedInstances : inst.State = "terminated")
          => result = None

\* the only instance named like the target is terminated, its pair was
\* queried without failure, and nothing is found
C8_Witness ==
    /\ Returned
    /\ result = None
    /\ \E p \in Pairs :
          /\ Healthy(p) /\ Queried(p)
          /\ HeldBy(p) # <<>>
          /\ NamedInstances = {HeldBy(p)[1]}
          /\ HeldBy(p)[1].State = "terminated"

(***************************************************************************)
(* C9.  Reference scenario: registry {prod: 111111111111,                  *)
(* dev: 222222222222}, regions [us-east-1, eu-west-1], web-01 only in      *)
(* dev / eu-west-1, stopped, in zone eu-west-1b.  The result is            *)
(* (dev, eu-west-1, that instance), after prod/us-east-1, prod/eu-west-1   *)
(* and dev/us-east-1 were queried without a match.                         *)
(***************************************************************************)
EuWest1b == <<"e", "u", "-", "w", "e", "s", "t", "-", "1", "b">>

ReferenceScenario ==
    /\ accounts = <<[name |-> "prod", id |-> Repeat("1", AccountIdLength)],
                    [name |-> "dev", id |-> Repeat("2", AccountIdLength)]>>
    /\ valid_regions = <<UsEast1, EuWest1>>
    /\ server_name = "web-01"
    /\ \A p \in Pairs : fault[p] = "none"
    /\ \A p \in Pairs : p # <<2, 2>> => HeldBy(p) = <<>>
    /\ HeldBy(<<2, 2>>) = <<Instance(<<2, 2, 1>>, "web-01", "stopped", EuWest1b)>>

QuerySequence == SelectSeq(calls, LAMBDA c : c.op = "describe_instances")

C11_NotFoundIsNotTotalFailure ==
    (Returned /\ result = None) =>
        ~(\A p \in Pairs : AssumeFails(p))

(***************************************************************************)
(* C12.  Idempotence: a second call of the same resolver with the same     *)
(* name, registry and regions against the unchanged backend returns the    *)
(* result of the first call and issues the same remote calls; and every    *)
(* remote call a resolver issues is a read (an STS role assumption or an   *)
(* EC2 describe), none changes backend state.                              *)
(***************************************************************************)
ReadOnlyOperations == {"assume_role", "describe_instances"}

CalledAgain == previous # <<>> /\ Returned

ResultOf(name) == IF variant = name THEN result ELSE previous[1].result

Assumed == last.op = "assume_role"

\* a string of exactly twelve ASCII digits
IsTwelveAsciiDigits(v) ==
    /\ IsStr(v)
    /\ Len(v) = AccountIdLength
    /\ \A i \in 1..Len(v) : v[i] \in AsciiDigits

\* the call raised AssumeRoleError carrying its account id, its effective
\* role name and its region
RaisedWithContext ==
    /\ last.raised = "AssumeRoleError"
    /\ last.session = None
    /\ last.error.account_id = last.account_id
    /\ last.error.role_name = EffectiveRoleName(last.role_name)
    /\ last.error.region = last.region_name

(***************************************************************************)
(* C14.  An assume_role call whose account id is not exactly twelve ASCII  *)
(* digits (wrong length, a letter, a non-ASCII digit, a trailing newline,  *)
(* empty, not a string) raises AssumeRoleError with the account, role and  *)
(* region of the call and issues no credential exchange.                   *)
(***************************************************************************)
C14_MalformedAccountIdRejected ==
    (Assumed /\ ~IsTwelveAsciiDigits(last.account_id)) =>
        /\ RaisedWithContext
        /\ last.exchanges = 0

UnlistedRegion(v) == IsStr(v) /\ v # <<>> /\ v \notin VALID_REGIONS

C16_UnlistedRegionPermitted ==
    ( /\ Assumed
      /\ UnlistedRegion(last.region_name)
      /\ IsTwelveAsciiDigits(last.account_id)
      /\ Len(EffectiveRoleName(last.role_name)) \in 1..RoleNameMaxLength )
    =>  /\ last.warned
        /\ last.raised = "none" =>
              /\ last.session.region = last.region_name
              /\ last.session.account_id = last.account_id
              /\ last.exchanges = 0 =>
                    /\ manager.enable_caching
                    /\ \E n \in 1..Len(session_cache) :
                          session_cache[n].session = last.session
        /\ last.raised # "none" =>
              /\ last.exchanges = 1
              /\ last.error.cause \in StsAnswers \ {"ok"}

\* me-south-1 was served from the cache, with a warning
C16_Witness ==
    /\ Assumed
    /\ last.region_name = MeSouth1
    /\ last.warned
    /\ last.raised = "none"
    /\ last.exchanges = 0
    /\ last.session.region = MeSouth1

(***************************************************************************)
(* C20.  No retry: an assume_role call issues at most one credential       *)
(* exchange, and a call that fails (validation, ClientError, missing       *)
(* credentials, any other exception) raises AssumeRoleError with the       *)
(* account id, the effective role name and the region of the call and      *)
(* returns no session; a failure of the exchange follows exactly one       *)
(* exchange, a validation failure none.                                    *)
(***************************************************************************)
FailureClasses == {"ValueError", "ClientError", "NoCredentialsError", "Exception"}

SameCallAgain ==
    /\ Assumed
    /\ last'.op = "assume_role"
    /\ now' = now
    /\ last'.account_id = last.account_id
    /\ last'.region_name = last.region_name
    /\ last'.role_name = last.role_name

C17_SecondCallServedFromCache ==
    [][ (manager.enable_caching /\ SameCallAgain /\ last.raised = "none") =>
            /\ last'.raised = "none"
            /\ last'.exchanges = 0
            /\ last'.session = last.session
            /\ last.exchanges + last'.exchanges <= 1 ]_vars

\* the claim as stated, whatever the outcome of the first call
C17_AtMostOneExchangeInTwoCalls ==
    [][ (manager.enable_caching /\ SameCallAgain) =>
            last.exchanges + last'.exchanges <= 1 ]_vars

\* a call was served from the cache, which holds the session of the one
\* exchange the manager issued
C17_Witness ==
    /\ manager.enable_caching
    /\ Assumed
    /\ last.raised = "none"
    /\ last.exchanges = 0
    /\ exchanges = 1
    /\ Len(session_cache) = 1
    /\ session_cache[1].session = last.session
    /\ last.role_name = OpsRole

(***************************************************************************)
(* C18.  With caching enabled, a session served from the cache is within   *)
(* its validity window: the call is made less than session_duration        *)
(* seconds after the exchange that produced the session.                   *)
(***************************************************************************)
ServedFromCache ==
    /\ manager.enable_caching
    /\ Assumed
    /\ last.raised = "none"
    /\ last.exchanges = 0

C18_NoExpiredSessionServed ==
    ServedFromCache => last.at < last.session.expiration

(***************************************************************************)
(* C19.  With caching enabled, lookup and insert for one key are atomic:   *)
(* when assume_role calls for the same (account, region, role) are         *)
(* interleaved on one manager, no two of them each obtain a session by an  *)
(* exchange of their own.                                                  *)
(***************************************************************************)
\* thread t obtained a session for its key by an exchange
Exchanged(t) ==
    /\ threads[t].pc \in {"exchanged", "returned"}
    /\ threads[t].exchanges = 1

C19_NoDuplicateExchange ==
    manager.enable_caching =>
        \A t, u \in DOMAIN threads :
            ( /\ t # u
              /\ Exchanged(t) /\ Exchanged(u) )
            => threads[t].cache_key # threads[u].cache_key

(***************************************************************************)
(* C21.  The constructor raises ValueError, and leaves no manager to use,  *)
(* exactly when a constraint is violated: role name empty or longer than   *)
(* 64 characters, session_duration outside [900, 43200], prefix empty or   *)
(* longer than 32 characters.  Every other configuration builds a manager  *)
(* that holds it.                                                          *)
(***************************************************************************)
Constructed == construction # None /\ construction.op = "__init__"

\* the length of a str argument, 0 for None
LengthOf(v) == IF v = NoneStr THEN 0 ELSE Len(v)

ConstraintViolated(cfg) ==
    \/ LengthOf(cfg.default_role_name) = 0
    \/ LengthOf(cfg.default_role_name) > 64
    \/ cfg.session_duration < 900
    \/ cfg.session_duration > 43200
    \/ LengthOf(cfg.session_name_prefix) = 0
    \/ LengthOf(cfg.session_name_prefix) > 32

C21_ConstructionValidated ==
    /\ Constructed =>
          /\ construction.raised = "ValueError" <=> ConstraintViolated(construction.args)
          /\ construction.raised = "ValueError" => manager = None
          /\ construction.raised = "none" => manager = construction.args
    /\ manager = None => last.op = "__init__"

\* the longest role name, the longest duration and the longest prefix were
\* accepted, and the manager built answered a call
C21_Witness ==
    /\ Constructed
    /\ construction.raised = "none"
    /\ Len(manager.default_role_name) = 64
    /\ manager.session_duration = 43200
    /\ Len(manager.session_name_prefix) = 32
    /\ last.op = "assume_role"
    /\ last.raised = "none"

(***************************************************************************)
(* C27.  Every credential exchange of assume_role(account, region, role)   *)
(* goes to the regional STS endpoint of that region, on a client of that   *)
(* region; its RoleArn is built from that account id and the effective     *)
(* role name; it asks for the manager's session_duration, which lies in    *)
(* [900, 43200]; and it carries the external id exactly when the manager   *)
(* has one.                                                                *)
(***************************************************************************)
\* part occurs in s from position k on
OccursAt(s, k, part) ==
    /\ Len(s) >= k + Len(part) - 1
    /\ SubSeq(s, k, k + Len(part) - 1) = part

\* the role the last call names: its own, or the default of its manager
RoleOfLastCall ==
    IF last.role_name \in {NoneStr, <<>>} THEN manager.default_role_name
    ELSE last.role_name

HasExternalId == manager.external_id \notin {NoneStr, <<>>}

C27_ExchangeRequest ==
    (Assumed /\ last.exchanges > 0) =>
        LET request == last.request
            scheme == <<"h", "t", "t", "p", "s", ":", "/", "/", "s", "t", "s", ".">>
            domain == <<".", "a", "m", "a", "z", "o", "n", "a", "w", "s", ".",
                        "c", "o", "m">>
            arn == <<"a", "r", "n", ":", "a", "w", "s", ":", "i", "a", "m", ":", ":">>
            path == <<":", "r", "o", "l", "e", "/">>
        IN
        /\ last.exchanges = 1
        /\ request.region_name = last.region_name
        /\ request.endpoint_url = scheme \o last.region_name \o domain
        /\ request.RoleArn = arn \o last.account_id \o path \o RoleOfLastCall
        /\ request.DurationSeconds = manager.session_duration
        /\ request.DurationSeconds \in 900..43200
        /\ HasExternalId => request.ExternalId = manager.external_id
        /\ ~HasExternalId => request.ExternalId = NoneStr

\* an exchange for an unlisted region, on a manager with an external id and
\* a default role name of its own
C27_Witness ==
    /\ Assumed
    /\ last.exchanges = 1
    /\ last.region_name = MeSouth1
    /\ last.role_name = NoneStr
    /\ manager.default_role_name = OpsRole
    /\ manager.external_id = ExternalId
    /\ last.request.ExternalId = ExternalId
    /\ OccursAt(last.request.endpoint_url, 13, MeSouth1)

(***************************************************************************)
(* clear_cache, get_cache_info and a manager built without caching.        *)
(***************************************************************************)
\* a step that is one assume_role call
AssumeRoleStep == last'.op = "assume_role" /\ now' = now

\* C22: clear_cache leaves the cache with zero entries, whatever it held, and
\* the assume_role call that follows it issues an exchange, also for a key
\* that was cached before the clear.
C22_ClearCacheDropsAll ==
    [][ /\ last'.op = "clear_cache" => session_cache' = <<>>
        /\ (last.op = "clear_cache" /\ AssumeRoleStep) =>
               /\ last'.exchanges = 1
               /\ last'.request # None ]_vars

\* clear_cache has just dropped at least one cached session
C22_Witness ==
    /\ last.op = "clear_cache"
    /\ last.dropped # {}
    /\ exchanges < MaxExchanges

\* the key account:region:role of a triple
KeyOf(triple) == triple[1] \o <<":">> \o triple[2] \o <<":">> \o triple[3]

InfoReported == last.op = "get_cache_info"

KeysListed == {last.info.keys[n] : n \in 1..Len(last.info.keys)}

\* C23: get_cache_info reports the caching flag; with caching enabled, a size
\* equal to the number of distinct (account, region, role) keys for which
\* assume_role returned a session since the last clear, and exactly those
\* keys, each once, as account:region:role; with caching disabled, size 0
\* and no key.  It reports nothing else.
C23_CacheInfo ==
    InfoReported =>
        /\ DOMAIN last.info = {"enabled", "size", "keys"}
        /\ last.info.enabled = manager.enable_caching
        /\ manager.enable_caching =>
               /\ last.info.size = Cardinality(returned_keys)
               /\ Len(last.info.keys) = last.info.size
               /\ KeysListed = {KeyOf(t) : t \in returned_keys}
        /\ ~manager.enable_caching =>
               /\ last.info.size = 0
               /\ last.info.keys = <<>>

\* the claim as stated, whether caching is enabled or not
C23_SizeCountsAssumedKeys ==
    InfoReported => last.info.size = Cardinality(returned_keys)

\* get_cache_info reported two keys of a caching manager
C23_Witness ==
    /\ InfoReported
    /\ manager.enable_caching
    /\ last.info.size = 2
    /\ Len(last.info.keys) = 2

\* C24: with caching disabled the cache stays empty, and every assume_role
\* call that returns a session issued an exchange of its own and returns the
\* session built from it.
C24_NoCachingWhenDisabled ==
    ~manager.enable_caching =>
        /\ session_cache = <<>>
        /\ (Assumed /\ last.raised = "none") =>
               /\ last.exchanges = 1
               /\ last.request # None
               /\ last.session.expiration = last.at + manager.session_duration

\* a manager without caching returned a session for the same key twice, from
\* two exchanges
C24_Witness ==
    /\ ~manager.enable_caching
    /\ Assumed
    /\ last.raised = "none"
    /\ last.exchanges = 1
    /\ exchanges = 2
    /\ now > 0
    /\ Cardinality(returned_keys) = 1

(***************************************************************************)
(* The log of the resolver.                                                *)
(***************************************************************************)
\* the query of the pair under the loops fails with a ClientError
QueryFailsNow ==
    /\ pc = "search"
    /\ ai <= NAccounts
    /\ ~AssumeFails(<<ai, ri>>)
    /\ fault[<<ai, ri>>] \in ClientErrorCodes

\* the region after <<i, j>> in iteration order
NextRegionAfter(i, j) == IF j < NRegions THEN <<i, j + 1>> ELSE <<i + 1, 1>>

\* C26: when the query of a region fails with a ClientError, a log event
\* naming the region and the code is emitted if and only if the code is
\* neither UnauthorizedOperation nor OptInRequired, and in both cases the
\* search goes on with the next region.
C26_RegionFailureLogged ==
    [][ QueryFailsNow =>
          /\ IF fault[<<ai, ri>>] \in {"UnauthorizedOperation", "OptInRequired"}
             THEN log' = log
             ELSE log' = Append(log, [level |-> "warning",
                                      about |-> valid_regions[ri],
                                      code |-> fault[<<ai, ri>>]])
          /\ pc' = "search"
          /\ <<ai', ri'>> = NextRegionAfter(ai, ri) ]_vars

\* one query failed with UnauthorizedOperation or OptInRequired and one with
\* another code, the log holds the one warning, and the search went on
C26_Witness ==
    /\ Returned
    /\ \E p, q \in Pairs :
          /\ AccessDenied(p) /\ Visited(p)
          /\ ~AssumeFails(q) /\ fault[q] = "RequestLimitExceeded" /\ Visited(q)
          /\ log = <<[level |-> "warning", about |-> valid_regions[q[2]],
                      code |-> "RequestLimitExceeded"]>>
          /\ \E r \in Pairs : Before(p, r) /\ Before(q, r) /\ Queried(r)

(***************************************************************************)
(* Discovery mode of ec2/info.py.                                          *)
(***************************************************************************)
\* the regions searched for account a, in order
SearchedIn(a) ==
    LET of_a == SelectSeq(discovery.visited, LAMBDA v : v[1] = a)
    IN  [n \in 1..Len(of_a) |-> of_a[n][2]]

IsPrefixOf(s, t) == Len(s) <= Len(t) /\ \A n \in 1..Len(s) : s[n] = t[n]

\* the seed session of the account cannot be assumed, or its region query fails
SeedFails(a) ==
    \/ discovery.seed_fault[a] # "none"
    \/ ~IsTwelveAsciiDigits(discovery.accounts[a].id)

\* a region of the account fails with something else than a ClientError
RegionLoopBroken(a) ==
    \E j \in 1..Len(discovery.enabled[a]) :
        discovery.fault[<<a, j>>] \in {"sts_denied", "transport"}

RegionQueries(a) ==
    {n \in 1..Len(discovery.calls) :
        /\ discovery.calls[n].op = "describe_regions"
        /\ discovery.calls[n].account = discovery.accounts[a].name}

DiscoveryReturnedNone == discovery.pc = "returned" /\ discovery.result = None

\* C25: in discovery mode the regions searched for an account are taken, in
\* order, from the list its enabled-region query returned, and are all of
\* that list when nothing is found and no region of the account breaks the
\* loop; the query is made once, through a session of the seed region; when
\* the seed session or the query fails no region of the account is searched
\* and the search goes on with the next account.
C25_RegionsDiscoveredPerAccount ==
    \A a \in 1..Len(discovery.accounts) :
        /\ IsPrefixOf(SearchedIn(a), discovery.enabled[a])
        /\ Cardinality(RegionQueries(a)) <= 1
        /\ \A n \in RegionQueries(a) : discovery.calls[n].region = UsEast1
        /\ SeedFails(a) => SearchedIn(a) = <<>>
        /\ (SeedFails(a) /\ discovery.ai > a) =>
               \/ discovery.pc = "returned"
               \/ a + 1 > Len(discovery.accounts)
               \/ \E n \in 1..Len(discovery.entered) : discovery.entered[n] = a + 1
               \/ discovery.pc = "account" /\ discovery.ai = a + 1
        /\ DiscoveryReturnedNone =>
               /\ \E n \in 1..Len(discovery.entered) : discovery.entered[n] = a
               /\ (~SeedFails(a) /\ ~RegionLoopBroken(a)) =>
                      SearchedIn(a) = discovery.enabled[a]

\* the region query of the first account failed, no region of it was
\* searched, and the two regions the second account returned were
C25_Witness ==
    /\ DiscoveryReturnedNone
    /\ discovery.seed_fault[1] = "ClientError"
    /\ discovery.enabled[1] # <<>>
    /\ SearchedIn(1) = <<>>
    /\ discovery.enabled[2] = <<EuCentral1, UsEast1>>
    /\ SearchedIn(2) = <<EuCentral1, UsEast1>>

(***************************************************************************)
(* The start and stop commands.                                            *)
(***************************************************************************)
CommandReturned == command.pc = "returned"

\* the positions of events at which start_instances or stop_instances was called
MutatingCalls ==
    {n \in 1..Len(command.events) :
        /\ command.events[n].kind = "call"
        /\ command.events[n].what \in {"start_instances", "stop_instances"}}

PromptsAnswered(answer) ==
    {n \in 1..Len(command.events) :
        command.events[n].kind = "prompt" /\ command.events[n].ok = answer}

\* the state of the instance the resolver returned, if it returned one with
\* an instance id
ResolvedAs(state) ==
    /\ command.resolved.found = "instance"
    /\ command.resolved.instance_data.InstanceId # None
    /\ command.resolved.instance_data.State = state

WaiterRan(what, ok) ==
    \E n \in 1..Len(command.events) :
        command.events[n] = [kind |-> "wait", what |-> what, ok |-> ok]

\* C28: with dry_run=True neither command calls start_instances or
\* stop_instances, whatever the resolved state, the answers and wait.
C28_DryRunCallsNothing ==
    command.dry_run => MutatingCalls = {}

\* a dry run of a start of a stopping instance went through the prompt and
\* the wait and returned True
C28_Witness ==
    /\ command.dry_run
    /\ command.op = "start"
    /\ ResolvedAs("stopping")
    /\ PromptsAnswered(TRUE) # {}
    /\ WaiterRan("instance_stopped", TRUE)
    /\ CommandReturned
    /\ command.result = "True"

\* C29: with auto_confirm=False, start_instances or stop_instances is called
\* only after the user answered yes to the confirmation prompt of the call,
\* and once a prompt is declined the call has returned False without calling
\* either.
C29_ConfirmationPrecedesAction ==
    ~command.auto_confirm =>
        /\ \A n \in MutatingCalls :
              \E m \in 1..(n - 1) :
                  command.events[m] = [kind |-> "prompt", what |-> "are_you_sure",
                                       ok |-> TRUE]
        /\ PromptsAnswered(FALSE) # {} =>
              /\ CommandReturned
              /\ command.result = "False"
              /\ MutatingCalls = {}

\* a start of a stopping instance was confirmed twice and start_instances
\* was called
C29_Witness ==
    /\ ~command.auto_confirm
    /\ command.op = "start"
    /\ ResolvedAs("stopping")
    /\ Cardinality(PromptsAnswered(TRUE)) = 2
    /\ MutatingCalls # {}

\* C30: start_instance_by_name, for a resolved instance: running returns
\* True; pending returns True when wait is off or the instance_running
\* waiter succeeds, and False when the waiter fails; any state other than
\* running, pending, stopped and stopping returns False; in all those cases
\* start_instances is not called, which it is only for an instance resolved
\* as stopped or stopping.
C30_StartBranches ==
    (command.op = "start" /\ command.pc # "called") =>
        /\ ResolvedAs("running") =>
              CommandReturned /\ command.result = "True" /\ command.events = <<>>
        /\ ResolvedAs("pending") =>
              /\ MutatingCalls = {}
              /\ ~command.wait => CommandReturned /\ command.result = "True"
              /\ CommandReturned =>
                    command.result = IF WaiterRan("instance_running", FALSE)
                                     THEN "False" ELSE "True"
        /\ (\E st \in (InstanceStates \cup {NoState})
                         \ {"running", "pending", "stopped", "stopping"} :
               ResolvedAs(st)) =>
              CommandReturned /\ command.result = "False" /\ command.events = <<>>
        /\ MutatingCalls # {} => (ResolvedAs("stopped") \/ ResolvedAs("stopping"))

\* the claim as stated: pending returns True
C30_PendingReturnsTrue ==
    (command.op = "start" /\ CommandReturned /\ ResolvedAs("pending")) =>
        command.result = "True"

\* a start with wait of a pending instance returned True after the waiter
C30_Witness ==
    /\ command.op = "start"
    /\ ResolvedAs("pending")
    /\ command.wait
    /\ WaiterRan("instance_running", TRUE)
    /\ CommandReturned
    /\ command.result = "True"

\* the states the filter of the resolver lets through, and no State at all
OtherStates(handled) == (InstanceStates \cup {NoState}) \ handled

\* C31: stop_instance_by_name, for a resolved instance: stopped returns
\* True; stopping returns True when wait is off or the instance_stopped
\* waiter succeeds, and False when the waiter fails; any state other than
\* stopped, stopping, running and pending returns False; in all those cases
\* stop_instances is not called, which it is only for an instance resolved
\* as running or pending.
C31_StopBranches ==
    (command.op = "stop" /\ command.pc # "called") =>
        /\ ResolvedAs("stopped") =>
              CommandReturned /\ command.result = "True" /\ command.events = <<>>
        /\ ResolvedAs("stopping") =>
              /\ MutatingCalls = {}
              /\ ~command.wait => CommandReturned /\ command.result = "True"
              /\ CommandReturned =>
                    command.result = IF WaiterRan("instance_stopped", FALSE)
                                     THEN "False" ELSE "True"
        /\ (\E st \in OtherStates({"stopped", "stopping", "running", "pending"}) :
               ResolvedAs(st)) =>
              CommandReturned /\ command.result = "False" /\ command.events = <<>>
        /\ MutatingCalls # {} => (ResolvedAs("running") \/ ResolvedAs("pending"))

\* the claim as stated: stopping returns True
C31_StoppingReturnsTrue ==
    (command.op = "stop" /\ CommandReturned /\ ResolvedAs("stopping")) =>
        command.result = "True"

\* a stop of a pending instance called stop_instances
C31_Witness ==
    /\ command.op = "stop"
    /\ ResolvedAs("pending")
    /\ \E n \in MutatingCalls : command.events[n].what = "stop_instances"
    /\ CommandReturned

\* the position of the first event that is so, or 0
Position(kind, what, ok) ==
    LET at == {n \in 1..Len(command.events) :
                  command.events[n] = [kind |-> kind, what |-> what, ok |-> ok]}
    IN  IF at = {} THEN 0 ELSE CHOOSE n \in at : \A m \in at : n <= m

\* C32: a start of an instance resolved as stopping calls start_instances
\* only after the wait for instance_stopped succeeded; when that wait fails
\* or times out the call returns False and never calls start_instances.
C32_StoppingWaitsBeforeStart ==
    (command.op = "start" /\ ResolvedAs("stopping")) =>
        /\ \A n \in MutatingCalls :
              /\ Position("wait", "instance_stopped", TRUE) > 0
              /\ Position("wait", "instance_stopped", TRUE) < n
        /\ WaiterRan("instance_stopped", FALSE) =>
              /\ CommandReturned
              /\ command.result = "False"
              /\ MutatingCalls = {}

\* the wait succeeded and start_instances was called after it
C32_Witness ==
    /\ command.op = "start"
    /\ ResolvedAs("stopping")
    /\ WaiterRan("instance_stopped", TRUE)
    /\ \E n \in MutatingCalls : command.events[n].ok
    /\ CommandReturned
    /\ command.result = "True"

\* C33: with wait=True and dry_run=False a start returns True only if the
\* instance was resolved as running or the instance_running waiter
\* succeeded, a stop only if it was resolved as stopped or the
\* instance_stopped waiter succeeded; and a call in which a waiter failed
\* returns False.
C33_TrueOnlyIfObserved ==
    (command.wait /\ ~command.dry_run /\ CommandReturned) =>
        /\ (command.op = "start" /\ command.result = "True") =>
               \/ ResolvedAs("running")
               \/ command.events[Len(command.events)] =
                      [kind |-> "wait", what |-> "instance_running", ok |-> TRUE]
        /\ (command.op = "stop" /\ command.result = "True") =>
               \/ ResolvedAs("stopped")
               \/ command.events[Len(command.events)] =
                      [kind |-> "wait", what |-> "instance_stopped", ok |-> TRUE]
        /\ (\E n \in 1..Len(command.events) :
               command.events[n].kind = "wait" /\ ~command.events[n].ok) =>
               command.result = "False"

\* start_instances answered, the instance_running waiter failed, and the
\* start returned False
C33_Witness ==
    /\ command.op = "start"
    /\ command.wait
    /\ ~command.dry_run
    /\ \E n \in MutatingCalls : command.events[n].ok
    /\ WaiterRan("instance_running", FALSE)
    /\ CommandReturned
    /\ command.result = "False"

\* C34: neither command raises to its caller; it returns False without a
\* call of start_instances or stop_instances when the resolver returns
\* None, returns an instance without InstanceId, or raises, and it returns
\* False when the call of start_instances or stop_instances fails.
C34_NeverRaises ==
    /\ command.pc # "raised"
    /\ command.pc # "called" =>
          /\ ( \/ command.resolved.found \in {"none", "raised"}
               \/ /\ command.resolved.found = "instance"
                  /\ command.resolved.instance_data.InstanceId = None ) =>
                 /\ CommandReturned
                 /\ command.result = "False"
                 /\ MutatingCalls = {}
          /\ (\E n \in MutatingCalls : ~command.events[n].ok) =>
                 /\ CommandReturned
                 /\ command.result = "False"

\* the resolver raised and the command returned False
C34_Witness ==
    /\ command.resolved.found = "raised"
    /\ CommandReturned
    /\ command.result = "False"
    /\ command.events = <<>>

(***************************************************************************)
(* The cost of discovery mode.                                             *)
(***************************************************************************)
\* the remote calls of the search made for account a
CallsFor(a) ==
    {n \in 1..Len(discovery.calls) :
        discovery.calls[n].account = discovery.accounts[a].name}

\* nothing of account a fails and none of its regions holds the instance
QuietAndEmpty(a) ==
    /\ ~SeedFails(a)
    /\ \A j \in 1..Len(discovery.enabled[a]) :
          /\ discovery.fault[<<a, j>>] = "none"
          /\ discovery.holds[<<a, j>>] = 0

\* what the search over a fixed list of n regions issues for such an
\* account: one credential exchange and one query per region
FixedListCalls(n) == 2 * n

\* C35: for an account whose n enabled regions all answer and hold no
\* match, discovery mode issues two remote calls more than the fixed-list
\* search over the same regions: the credential exchange of the seed
\* session and the enabled-region query.
C35_TwoExtraCalls ==
    \A a \in 1..Len(discovery.accounts) :
        (DiscoveryReturnedNone /\ QuietAndEmpty(a)) =>
            /\ Cardinality(CallsFor(a)) =
                  FixedListCalls(Len(discovery.enabled[a])) + 2
            /\ Cardinality({n \in CallsFor(a) :
                               discovery.calls[n].op = "assume_role"}) =
                  Len(discovery.enabled[a]) + 1
            /\ Cardinality(RegionQueries(a)) = 1

\* C35 as stated: discovery mode issues exactly one remote call more than
\* the fixed-list search over the same regions.
C35_OneExtraRoundTrip ==
    \A a \in 1..Len(discovery.accounts) :
        (DiscoveryReturnedNone /\ QuietAndEmpty(a)) =>
            Cardinality(CallsFor(a)) =
                FixedListCalls(Len(discovery.enabled[a])) + 1

\* an account with two enabled regions was searched without a match: six
\* remote calls
C35_Witness ==
    /\ DiscoveryReturnedNone
    /\ QuietAndEmpty(2)
    /\ discovery.enabled[2] = <<EuCentral1, UsEast1>>
    /\ Cardinality(CallsFor(2)) = 6

(***************************************************************************)
(* The keys of the session cache.                                          *)
(***************************************************************************)
\* the (account_id, region, effective role name) triple a session was
\* issued for
TripleOf(session) == <<session.account_id, session.region, session.role>>

\* the triple of the last assume_role call
LastTriple ==
    <<last.account_id, last.region_name,
      EffectiveRoleNameOf(manager, last.role_name)>>

\* C36: with caching enabled an assume_role call that returns a session
\* returns one issued for exactly the (account_id, region, effective role
\* name) triple of the call, every cache entry is filed under the key of the
\* triple its session was issued for, and no two triples for which a session
\* was returned have the same cache key.
C36_CacheKeysInjective ==
    manager.enable_caching =>
        /\ (last.op = "assume_role" /\ last.raised = "none") =>
               TripleOf(last.session) = LastTriple
        /\ \A n \in 1..Len(session_cache) :
               session_cache[n].key =
                   GetCacheKey(session_cache[n].session.account_id,
                               session_cache[n].session.region,
                               session_cache[n].session.role)
        /\ \A p, q \in returned_keys :
               GetCacheKey(p[1], p[2], p[3]) = GetCacheKey(q[1], q[2], q[3])
                   => p = q

\* C37: an assume_role call that raises leaves the session cache as it
\* was, whatever made it fail (a validation error, a denial by the remote
\* endpoint, missing credentials or an unexpected error); and every entry of
\* the cache is a session that an assume_role call returned for the triple
\* the entry is filed under.
C37_FailureLeavesCache ==
    [][ /\ (AssumeRoleStep /\ last'.raised # "none") =>
               session_cache' = session_cache
        /\ \A n \in 1..Len(session_cache') :
               /\ TripleOf(session_cache'[n].session) \in returned_keys'
               /\ session_cache'[n].key =
                      GetCacheKey(session_cache'[n].session.account_id,
                                  session_cache'[n].session.region,
                                  session_cache'[n].session.role) ]_vars

\* a session is cached and a later call was denied by the remote endpoint
C37_Witness ==
    /\ manager.enable_caching
    /\ last.op = "assume_role"
    /\ last.raised = "AssumeRoleError"
    /\ last.error.cause = "ClientError"
    /\ Len(session_cache) = 1

(***************************************************************************)
(* The client handle of find_instance_with_session.                        *)
(***************************************************************************)
\* the call is one of find_instance_with_session and returned a match
FoundWithSession == variant = "find_instance_with_session" /\ Found

\* C38: the client handle find_instance_with_session returns is bound to
\* the account of the pair whose query produced the match and to the region
\* that was queried, also when the normalized region returned differs from
\* the region queried.
C38_HandleBoundToQueriedPair ==
    FoundWithSession =>
        /\ result[4].service_name = "ec2"
        /\ result[4].account_id = accounts[ResultPair[1]].id
        /\ result[4].region_name = valid_regions[ResultPair[2]]

(***************************************************************************)
(* What ends the region loop of an account, as coded.                      *)
(***************************************************************************)
\* ec2/find.py: the pass for <<ai, ri>> is about to fail with
\* AssumeRoleError, or with an exception of the query that is no ClientError
RegionAbortsNow ==
    /\ accounts # <<>>
    /\ pc = "search"
    /\ ai <= NAccounts
    /\ \/ AssumeFails(<<ai, ri>>)
       \/ fault[<<ai, ri>>] = "transport"

\* ec2/find.py: the pass for p failed in one of these two ways
Aborted(p) == Visited(p) /\ (AssumeFails(p) \/ fault[p] = "transport")

\* ec2/info.py: the same two failures, and a ClientError of the query, for
\* the region the search of discovery mode is at
InfoInRegionLoop ==
    /\ accounts = <<>>
    /\ discovery.pc = "region"
    /\ discovery.ri <= Len(discovery.regions)

InfoRegionAbortsNow ==
    /\ InfoInRegionLoop
    /\ discovery.fault[<<discovery.ai, discovery.ri>>] \in {"sts_denied", "transport"}

InfoQueryFailsNow ==
    /\ InfoInRegionLoop
    /\ discovery.fault[<<discovery.ai, discovery.ri>>] \in ClientErrorCodes

\* the passes of the region loop that search d made for account a
InfoVisitedIn(d, a) == {n \in 1..Len(d.visited) : d.visited[n][1] = a}

InfoVisited(a) == InfoVisitedIn(discovery, a)

\* C39: in the three resolvers as coded, when the role assumption for region
\* r of account a fails, or the query of r raises an exception that is no
\* ClientError, the search goes on with the first region of the next account
\* and no region of a after r is visited or queried in that call; when the
\* query raises a ClientError the search goes on with the next region.
C39_RegionFailureEndsAccount ==
    [][ /\ RegionAbortsNow =>
               /\ pc' = "search"
               /\ <<ai', ri'>> = <<ai + 1, 1>>
        /\ (accounts # <<>> /\ QueryFailsNow) =>
               /\ pc' = "search"
               /\ <<ai', ri'>> = NextRegionAfter(ai, ri)
        /\ accounts # <<>> =>
               \A p, q \in Pairs :
                   (p[1] = q[1] /\ p[2] < q[2] /\ Aborted(p)') =>
                       /\ ~Visited(q)'
                       /\ ~Queried(q)'
        /\ InfoRegionAbortsNow =>
               /\ discovery'.pc = "account"
               /\ discovery'.ai = discovery.ai + 1
               /\ Cardinality(InfoVisitedIn(discovery', discovery.ai)) = discovery.ri
        /\ InfoQueryFailsNow =>
               /\ discovery'.pc = "region"
               /\ discovery'.ai = discovery.ai
               /\ discovery'.ri = discovery.ri + 1
        /\ (accounts = <<>> /\ discovery.pc = "returned") =>
               \A a \in 1..Len(discovery.accounts) :
                   \A j \in 1..Len(discovery.enabled[a]) :
                       (/\ Cardinality(InfoVisited(a)) >= j
                        /\ discovery.fault[<<a, j>>] \in {"sts_denied", "transport"})
                           => Cardinality(InfoVisited(a)) = j ]_vars

\* find.py: the role assumption for the first region of the first account
\* failed, its second region was passed over, the second account was
\* searched, and the call returned
C39_Witness ==
    /\ accounts # <<>>
    /\ Returned
    /\ NRegions = 2
    /\ NAccounts = 2
    /\ AssumeFails(<<1, 1>>)
    /\ Visited(<<1, 1>>)
    /\ ~Visited(<<1, 2>>)
    /\ Visited(<<2, 1>>)

====
